---------------------------- MODULE Spec2Model ----------------------------
(***************************************************************************)
(* A model of the real-time core of synthesizer-io:                        *)
(*   - the lock-free queue (queue.rs): a Treiber stack of heap nodes with  *)
(*     push_raw (load / write child / CAS), pop_all (swap), reverse and    *)
(*     the two drain iterators;                                            *)
(*   - the graph runner (graph.rs): replace, topo_sort, run_one_module,    *)
(*     run_graph;                                                          *)
(*   - the worker (worker.rs): handle_item and work.                       *)
(* Three specifications share the operators:                               *)
(*   SpecQ  one queue, one producer and one consumer, every atomic step    *)
(*          of push_raw and of a drain interleaved;                        *)
(*   SpecG  a Graph driven by replace and run_graph calls;                 *)
(*   SpecW  a Worker with its two queues and a control thread.             *)
(***************************************************************************)
EXTENDS Naturals, Integers, Sequences, FiniteSets, TLC

\* ------------------------------------------------------------------------
\* State of SpecQ: one Queue<T>, its producer and its consumer
\* ------------------------------------------------------------------------
VARIABLES
    q_head,     \* Queue.head: AtomicPtr<Node<T>>
    q_child,    \* Node.child of every heap address
    q_payload,  \* Node.payload of every heap address
    q_free,     \* heap addresses not allocated (Box::new may return any of them)
    p_pc,       \* producer: "idle", "write" (before (*n).child = old_ptr), "cas"
    p_n,        \* producer: n of push_raw, the node of the Item being sent
    p_old,      \* producer: old_ptr of push_raw
    p_retries,  \* producer: failed CAS attempts of this send with head /= old_ptr
    c_pc,       \* consumer: "idle", "reverse" (pop_all done), "iter"
    c_iter,     \* consumer: the pointer held by pop_all's result / by the iterator
    c_move,     \* consumer: TRUE when the drain is recv() (QueueMoveIter)
    c_held,     \* consumer: the Items yielded by recv_items and still owned
    sentLog,    \* payloads in the order their send / send_item completed
    recvLog,    \* payloads in the order the drains yielded them
    nsent       \* number of make_item calls of the producer

qvars == <<q_head, q_child, q_payload, q_free, p_pc, p_n, p_old, p_retries,
           c_pc, c_iter, c_move, c_held, sentLog, recvLog, nsent>>

\* ------------------------------------------------------------------------
\* State of SpecG: one Graph
\* ------------------------------------------------------------------------
VARIABLES
    g_nodes,    \* Graph.nodes: per slot, the installed message or None
    g_visited,  \* Graph.visited
    g_link,     \* Graph.link
    g_order,    \* the node ids the last run_graph call processed, in order
    g_root,     \* the root of the last run_graph call (SENTINEL: none yet)
    g_panic,    \* TRUE once a call has panicked
    g_topo      \* topo_sort of the last run_graph call: turns, pushes, appends

gvars == <<g_nodes, g_visited, g_link, g_order, g_root, g_panic, g_topo>>

\* ------------------------------------------------------------------------
\* State of SpecW: a Worker, its two queues and the control thread
\* ------------------------------------------------------------------------
VARIABLES
    w_payload,    \* Node.payload of every Item of Message (None: not allocated)
    w_child,      \* Node.child of every Item
    w_nalloc,     \* number of Items the control thread has made
    in_head,      \* head of the queue tx -> Worker.to_worker
    out_head,     \* head of the queue Worker.from_worker -> rx
    w_nodes,      \* Worker.graph.nodes: per slot an Item, or NULL for None
    w_visited,    \* Worker.graph.visited
    w_link,       \* Worker.graph.link
    w_mod,        \* per Item: the state of the module of its Node
    w_pc,         \* worker: "idle", "iter" (in work's for loop), "panic", "hang"
    w_iter,       \* worker: the pointer held by the QueueItemIter of work
    w_calls,      \* number of work calls begun; the timestamp of the last
    w_result,     \* what the last returned work call handed out
    w_sentAt,     \* per Item: the number of work calls begun when sent
    w_applied,    \* the Items handle_item was called on, in order
    w_appliedAt,  \* per Item: the work call that dispatched it (0: none)
    w_returned,   \* the Items rx.recv() yielded to the control thread, in order
    w_dropped,    \* the Items handle_item let go of without sending them on
    w_replaced,   \* the graph.replace calls: [ix, item, old_item], in order
    w_migrations  \* the migrate calls: [new, old] Items, in order

wvars == <<w_payload, w_child, w_nalloc, in_head, out_head, w_nodes, w_visited,
           w_link, w_mod, w_pc, w_iter, w_calls, w_result, w_sentAt, w_applied,
           w_appliedAt, w_returned, w_dropped, w_replaced, w_migrations>>

\* ------------------------------------------------------------------------
\* State of SpecM: one Queue<T>, the clones of its Sender and its Receiver
\* ------------------------------------------------------------------------
VARIABLES
    m_head,     \* Queue.head
    m_child,    \* Node.child of every heap address
    m_payload,  \* Node.payload of every heap address: [from, seq]
    m_free,     \* heap addresses not allocated
    mp_pc,      \* per producer: "idle", "write", "cas"
    mp_n,       \* per producer: n of push_raw
    mp_old,     \* per producer: old_ptr of push_raw
    mp_nsent,   \* per producer: number of send calls begun
    mc_pc,      \* consumer: "idle", "reverse", "iter"
    mc_iter,    \* consumer: the pointer held by pop_all's result / the iterator
    m_sentLog,  \* payloads in the order their send completed
    m_recvLog   \* payloads in the order the drains yielded them

mvars == <<m_head, m_child, m_payload, m_free, mp_pc, mp_n, mp_old, mp_nsent,
           mc_pc, mc_iter, m_sentLog, m_recvLog>>

\* ------------------------------------------------------------------------
\* State of SpecS: one graph slot whose node holds a Sin or a Saw
\* ------------------------------------------------------------------------
VARIABLES
    s_nodes,    \* Graph.nodes (one slot): the installed Node item or None
    s_old,      \* what the last replace call returned
    s_made      \* number of Node items created so far

svars == <<s_nodes, s_old, s_made>>

\* ------------------------------------------------------------------------
\* State of SpecN: a Monitor module and the UI polling it
\* ------------------------------------------------------------------------
VARIABLES
    n_pool,     \* Monitor.buf_pool: the Items of the Vec, last element on top
    n_len,      \* len() of the Vec<f32> each Item owns, in samples
    n_to,       \* the queue read by Monitor.to_monitor (sent by the UI)
    n_from,     \* the queue written by Monitor.from_monitor (read by the UI)
    n_ui,       \* Items of the recv_items iterator poll_monitor is walking
    n_cur,      \* cur_buf of the process call under way (<<>> is None)
    n_pc,       \* "idle", or "copied" between the copy and the recording
    n_in,       \* buf_in[0] of the last process call
    n_out,      \* buf_out[0]
    n_alloc     \* whether process has grown a Vec beyond its capacity

nvars == <<n_pool, n_len, n_to, n_from, n_ui, n_cur, n_pc, n_in, n_out, n_alloc>>

\* ------------------------------------------------------------------------
\* State of SpecI: an IdAllocator and its caller
\* ------------------------------------------------------------------------
VARIABLES
    i_alloc,    \* the IdAllocator: [free, highwater]
    i_issued,   \* ids the caller holds: allocated or reserved, not yet freed
    i_op,       \* the last call: "new", "alloc", "free" or "reserve"
    i_arg,      \* the id the last call was given or returned
    i_panic     \* whether the last call panicked

ivars == <<i_alloc, i_issued, i_op, i_arg, i_panic>>

\* ------------------------------------------------------------------------
\* State of SpecA: an Adsr node
\* ------------------------------------------------------------------------
VARIABLES
    a_value,    \* Adsr.value, in grid units
    a_state,    \* Adsr.state
    a_ctrl,     \* the four control inputs wired to the node (control_in)
    a_out,      \* control_out[0] of the node
    a_op        \* the last call: "new", "process", "note_on", "note_off", "ctrl"

avars == <<a_value, a_state, a_ctrl, a_out, a_op>>

\* ------------------------------------------------------------------------
\* State of SpecR: one Queue<T> whose Items are recycled
\* ------------------------------------------------------------------------
VARIABLES
    r_head,     \* Queue.head of the queue the producers send on
    r_out,      \* Queue.head of the queue the consumer returns Items on
    r_child,    \* Node.child of every Item
    r_own,      \* per Item: "pool" (free to send), "pushing", "queue", "out"
    r_gen,      \* per Item: how often it has been pushed on the queue
    rp_pc,      \* per producer: "idle", "write", "cas"
    rp_n,       \* per producer: n of push_raw
    rp_old,     \* per producer: old_ptr of push_raw
    rp_seen,    \* per producer: r_gen of the node at old_ptr when it was read
    rc_pc,      \* consumer: "idle", "iter"
    rc_iter,    \* consumer: the pointer held by the QueueItemIter
    rc_resent,  \* consumer: Items of this drain it has sent on the queue again
    r_aba       \* a CAS has succeeded on a node pushed again since the read

rvars == <<r_head, r_out, r_child, r_own, r_gen, rp_pc, rp_n, rp_old, rp_seen,
           rc_pc, rc_iter, rc_resent, r_aba>>

\* ------------------------------------------------------------------------
\* State of SpecX: a Graph of a root and one source
\* ------------------------------------------------------------------------
VARIABLES
    x_nodes,    \* Graph.nodes: per slot, the installed message or None
    x_res,      \* outcome of the last call: "none" after a replace, "ok",
                \* or the panic that ended it
    x_in        \* <<[buf_in, ctrl_in]>> handed to the root's process_ts by
                \* the last run_graph call that returned, else <<>>

xvars == <<x_nodes, x_res, x_in>>

\* ------------------------------------------------------------------------
\* State of SpecK: a SmoothCtrl node
\* ------------------------------------------------------------------------
VARIABLES
    k_sc,       \* the SmoothCtrl: rate, rategoal, t, last_set_t, inp, mid, out
    k_call      \* the last call: [op, ts, val]

kvars == <<k_sc, k_call>>

\* ------------------------------------------------------------------------
\* State of SpecD: the Midi of an Engine
\* ------------------------------------------------------------------------
VARIABLES
    d_midi,     \* the Midi: control_map and cur_note
    d_sent,     \* the messages sent on core.tx, in order
    d_panic     \* dispatch_midi read past the end of its data

dvars == <<d_midi, d_sent, d_panic>>

\* ------------------------------------------------------------------------
\* State of SpecE: an Engine and the Worker at the other end of its queue
\* ------------------------------------------------------------------------
VARIABLES
    e_id_alloc, \* Core.id_alloc
    e_midi,     \* Engine.midi: <<>> for None, <<midi>> for Some(midi)
    e_pending,  \* messages the Engine call under way has yet to send
    e_tx,       \* messages sent and not yet received by the worker
    e_nodes,    \* Worker.graph: per slot the node installed, or None
    e_panic,    \* a work call has panicked
    e_ids,      \* the ids instantiate_module has returned
    e_ncalls,   \* number of Engine calls made
    e_met,      \* the types of the messages work calls have handled
    e_mid       \* a work call received messages of a call still sending

evars == <<e_id_alloc, e_midi, e_pending, e_tx, e_nodes, e_panic, e_ids, e_ncalls,
           e_met, e_mid>>

\* the variables of the other specifications
nonq == <<gvars, wvars, mvars, svars, nvars, ivars, avars, rvars, xvars, kvars, dvars, evars>>

nong == <<qvars, wvars, mvars, svars, nvars, ivars, avars, rvars, xvars, kvars, dvars, evars>>

nonw == <<qvars, gvars, mvars, svars, nvars, ivars, avars, rvars, xvars, kvars, dvars, evars>>

nonm == <<qvars, gvars, wvars, svars, nvars, ivars, avars, rvars, xvars, kvars, dvars, evars>>

nons == <<qvars, gvars, wvars, mvars, nvars, ivars, avars, rvars, xvars, kvars, dvars, evars>>

nonn == <<qvars, gvars, wvars, mvars, svars, ivars, avars, rvars, xvars, kvars, dvars, evars>>

noni == <<qvars, gvars, wvars, mvars, svars, nvars, avars, rvars, xvars, kvars, dvars, evars>>

nona == <<qvars, gvars, wvars, mvars, svars, nvars, ivars, rvars, xvars, kvars, dvars, evars>>

nonr == <<qvars, gvars, wvars, mvars, svars, nvars, ivars, avars, xvars, kvars, dvars, evars>>

nonx == <<qvars, gvars, wvars, mvars, svars, nvars, ivars, avars, rvars, kvars, dvars, evars>>

nonk == <<qvars, gvars, wvars, mvars, svars, nvars, ivars, avars, rvars, xvars, dvars, evars>>

nond == <<qvars, gvars, wvars, mvars, svars, nvars, ivars, avars, rvars, xvars, kvars, evars>>

none == <<qvars, gvars, wvars, mvars, svars, nvars, ivars, avars, rvars, xvars, kvars, dvars>>

vars == <<qvars, gvars, wvars, mvars, svars, nvars, ivars, avars, rvars, xvars, kvars, dvars,
          evars>>

\* the null pointer (ptr::null_mut(), queue.rs)
NULL == 0

\* ------------------------------------------------------------------------
\* Bounds of the model
\* ------------------------------------------------------------------------

\* heap addresses the allocator can hand out in SpecQ
NumAddrs == 3

\* number of send calls of the producer in SpecQ
MaxSend == 4

\* the count of failed CAS attempts of one send stops at this value
MaxRetries == 3

\* Sender clones pushing in SpecM, send calls of each, heap addresses
NumProducers == 2

MaxSendEach == 2

NumMAddrs == 3

\* SpecS: Node items created, phase values (the table length N_SAMPLES of
\* sin.rs, scaled down), largest phase increment of one process call
MaxModules == 3

PhaseSteps == 4

MaxFreq == 2

\* SpecN: Items of the Monitor's pool (256 in monitor.rs), sample values
POOL_SIZE == 3

MaxSample == 1

\* SpecI: the ids in use are 0..MaxId-1
MaxId == 4

\* SpecA: fraction bits of the grid that stands for f32 in Adsr.value
\* (an f32 between -32 and -16 has 19)
GridBits == 1

\* SpecR: Items in circulation, pushes of one Item
NumRItems == 3

MaxGen == 2

\* SpecE: the largest slot of the worker's graph, and Engine calls in a run
MaxEngineId == 34

MaxEngineCalls == 3

\* SpecD: events in the data of one dispatch_midi call, and messages sent
\* in a run
MaxEvents == 2

MaxMidiSent == 4

\* SpecK: timestamps and parameter values of the calls
MaxTs == 3

MaxVal == 2

\* capacity of the Graph of SpecG (max_size of Graph::new)
GraphSize == 3

\* longest in_buf_wiring list of a node
MaxBufWiring == 2

\* longest in_ctrl_wiring list of a node
MaxCtrlWiring == 1

\* turns of topo_sort's loop followed per graph slot (TopoFuel)
FuelFactor == 4

\* most wiring entries of one node, and most in the whole graph of SpecG
MaxNodeWiring == 2

MaxGraphWiring == 3

\* capacity of the Graph of the Worker of SpecW (Worker::create(max_size))
WorkerSize == 2

\* Items the control thread makes in SpecW
NumItems == 3

\* work calls in SpecW
MaxCalls == 2

\* largest val of a SetParam
MaxParamVal == 2

Addrs == 1..NumAddrs

Ptrs == Addrs \cup {NULL}

\* ------------------------------------------------------------------------
\* Helpers on sequences
\* ------------------------------------------------------------------------

Range(s) == {s[i] : i \in 1..Len(s)}

NoDup(s) == \A i, j \in 1..Len(s) : i /= j => s[i] /= s[j]

IsPrefix(s, t) == Len(s) <= Len(t) /\ \A i \in 1..Len(s) : s[i] = t[i]

Last(s) == s[Len(s)]

\* ------------------------------------------------------------------------
\* queue.rs: the linked list of Node<T> { payload, child }
\* ------------------------------------------------------------------------

\* The nodes linked from p through child, in link order. The walk stops
\* after fuel nodes, so a cyclic list shows up as a repeated node.
RECURSIVE ChainFrom(_, _, _)
ChainFrom(ch, p, fuel) ==
    IF p = NULL \/ fuel = 0 THEN <<>>
    ELSE <<p>> \o ChainFrom(ch, ch[p], fuel - 1)

Chain(ch, p) == ChainFrom(ch, p, Cardinality(DOMAIN ch) + 1)

\* Node::reverse without the reversal: the list is handed on as popped.
reverse_omitted(ch, p, q) == [child |-> ch, head |-> p]

\* Node::reverse: reverse the singly-linked list in place. p walks the
\* list, q is the reversed part; the result is the new child map and head.
RECURSIVE reverse(_, _, _)
reverse(ch, p, q) ==
    IF p = NULL THEN [child |-> ch, head |-> q]
    ELSE reverse([ch EXCEPT ![p] = q], ch[p], p)

\* the Err value dropped: old_ptr keeps the pointer read before
cas_fail_old_stale(head, old_ptr) == old_ptr

\* push_raw, Err(old) => old_ptr = old: a failed compare_exchange_weak
\* returns the value the head holds
cas_fail_old(head, old_ptr) == head

\* the compare-exchange as a plain store of n
compare_exchange_store(head, old_ptr, n) == [ok |-> TRUE, head |-> n, old |-> head]

\* self.head.compare_exchange_weak(old_ptr, n, Release, Relaxed) when it
\* does not fail spuriously: Ok and the head is n if the head is old_ptr,
\* Err(old) with the head's value otherwise
compare_exchange(head, old_ptr, n) ==
    IF head = old_ptr THEN [ok |-> TRUE, head |-> n, old |-> head]
    ELSE [ok |-> FALSE, head |-> head, old |-> head]

\* Queue::pop_all with a load in place of the swap: the head stays set.
pop_all_load(head) == [ret |-> head, head |-> head]

\* Queue::pop_all: self.head.swap(null, Acquire); ret is the old head.
pop_all(head) == [ret |-> head, head |-> NULL]

\* ------------------------------------------------------------------------
\* graph.rs: Message, Node, Graph
\* ------------------------------------------------------------------------

\* Option::None, as a message
None == [type |-> "None"]

\* const SENTINEL: usize = !0 (no node id reaches it)
SENTINEL == -1

\* enum VisitedState
NotVisited == "NotVisited"

Pushed == "Pushed"

Scanned == "Scanned"

\* Message::Node(Node): ix and the two wiring lists, each entry a pair
\* (source node ix, index within the source's outputs)
NodeMsg(ix, bufw, ctrlw) ==
    [type |-> "Node", ix |-> ix, in_buf_wiring |-> bufw, in_ctrl_wiring |-> ctrlw]

\* Message::get_node: Some(node) for Message::Node, None otherwise
get_node_of(msg) == IF msg.type = "Node" THEN msg ELSE None

\* sequences over S of length at most n
SeqsUpTo(S, n) == UNION {[1..k -> S] : k \in 0..n}

\* node.in_buf_wiring.iter().chain(node.in_ctrl_wiring.iter()), sources only
Children(node) ==
    [i \in 1..(Len(node.in_buf_wiring) + Len(node.in_ctrl_wiring)) |->
        IF i <= Len(node.in_buf_wiring)
        THEN node.in_buf_wiring[i][1]
        ELSE node.in_ctrl_wiring[i - Len(node.in_buf_wiring)][1]]

\* the for loop of topo_sort pushing no source at all
push_children_none(st, kids, i) == st

\* the for loop of topo_sort pushing every source that is not Scanned, a
\* source already on the stack included
RECURSIVE push_children_repush(_, _, _)
push_children_repush(st, kids, i) ==
    IF i > Len(kids) THEN st
    ELSE LET ix == kids[i] IN
         IF st.visited[ix] /= Scanned
         THEN push_children_repush([st EXCEPT !.visited[ix] = Pushed,
                                              !.link[ix] = st.stack,
                                              !.stack = ix,
                                              !.pushed = Append(st.pushed, ix)],
                                   kids, i + 1)
         ELSE push_children_repush(st, kids, i + 1)

\* the for loop of topo_sort over the wirings of the scanned node: each
\* NotVisited source is marked Pushed and pushed on the stack (pushed
\* records the pushes in order)
RECURSIVE push_children(_, _, _)
push_children(st, kids, i) ==
    IF i > Len(kids) THEN st
    ELSE LET ix == kids[i] IN
         IF st.visited[ix] = NotVisited
         THEN push_children([st EXCEPT !.visited[ix] = Pushed,
                                       !.link[ix] = st.stack,
                                       !.stack = ix,
                                       !.pushed = Append(st.pushed, ix)], kids, i + 1)
         ELSE push_children(st, kids, i + 1)

\* the second half of topo_sort's loop body: a Scanned stack top is
\* appended to the result list and popped (appended records the appends)
pop_scanned(st) ==
    IF st.visited[st.stack] = Scanned
    THEN LET top == st.stack
             next == st.link[top]
             l1 == [st.link EXCEPT ![top] = SENTINEL]
             l2 == IF st.tail /= SENTINEL THEN [l1 EXCEPT ![st.tail] = top] ELSE l1
         IN [st EXCEPT !.link = l2,
                       !.head = IF st.head = SENTINEL THEN top ELSE st.head,
                       !.tail = top,
                       !.stack = next,
                       !.appended = Append(st.appended, top)]
    ELSE st

\* the turns of topo_sort's loop the model follows before it reports the
\* loop as not terminating
TopoFuel(st) == FuelFactor * Cardinality(DOMAIN st.visited)

\* topo_sort's while loop; get[ix] is the node installed at ix or None, on
\* which the unwrap panics. iters counts the turns of the loop; hang is set
\* when the loop is still running after TopoFuel turns.
RECURSIVE topo_loop(_, _)
topo_loop(get, st) ==
    IF st.stack = SENTINEL \/ st.panic THEN st
    ELSE IF st.iters >= TopoFuel(st) THEN [st EXCEPT !.hang = TRUE]
    ELSE IF st.visited[st.stack] = Pushed
         THEN LET top == st.stack
                  s1 == [st EXCEPT !.visited[top] = Scanned, !.iters = @ + 1]
              IN IF get[top] = None
                 THEN [s1 EXCEPT !.panic = TRUE]
                 ELSE topo_loop(get, pop_scanned(push_children(s1, Children(get[top]), 1)))
         ELSE topo_loop(get, pop_scanned([st EXCEPT !.iters = @ + 1]))

\* Graph::topo_sort(root): the stack starts as the root alone; the result
\* is the head of the list threaded through link
topo_sort(get, visited, link, root) ==
    topo_loop(get, [visited |-> [visited EXCEPT ![root] = Pushed],
                    link |-> [link EXCEPT ![root] = SENTINEL],
                    stack |-> root, head |-> SENTINEL, tail |-> SENTINEL,
                    panic |-> FALSE, hang |-> FALSE, iters |-> 0,
                    pushed |-> <<root>>, appended |-> <<>>])

\* Graph::run_one_module(module_ix): gathers the inputs, then process_ts.
\* TRUE when it panics: a buffer wiring names the node itself (the assert),
\* or a named source has no node (the unwrap in get_out_bufs / get_node)
run_one_module_panics(get, module_ix) ==
    LET this == get[module_ix] IN
    \/ this = None
    \/ \E i \in 1..Len(this.in_buf_wiring) :
        \/ this.in_buf_wiring[i][1] = module_ix
        \/ get[this.in_buf_wiring[i][1]] = None
    \/ \E i \in 1..Len(this.in_ctrl_wiring) :
        get[this.in_ctrl_wiring[i][1]] = None

\* the while loop of run_graph without self.visited[ix] = NotVisited
RECURSIVE run_loop_no_reset(_, _)
run_loop_no_reset(get, st) ==
    IF st.ix = SENTINEL \/ st.panic THEN st
    ELSE IF run_one_module_panics(get, st.ix)
         THEN [st EXCEPT !.panic = TRUE]
         ELSE run_loop_no_reset(get, [st EXCEPT !.order = Append(st.order, st.ix),
                                                !.ix = st.link[st.ix]])

\* a loop that runs every installed node, in slot order, whatever the list
run_loop_all(get, st) ==
    [st EXCEPT !.order = SelectSeq([i \in 1..Cardinality(DOMAIN st.visited) |-> i - 1],
                                   LAMBDA ix : get[ix] /= None),
               !.visited = [ix \in DOMAIN st.visited |-> NotVisited],
               !.ix = SENTINEL]

\* the while loop of run_graph over the sorted list: run_one_module, reset
\* visited[ix], follow link[ix]; order collects the modules processed. A
\* list with more entries than there are slots repeats a node, so it is
\* cyclic and the loop does not end: hang
RECURSIVE run_loop(_, _)
run_loop(get, st) ==
    IF st.ix = SENTINEL \/ st.panic THEN st
    ELSE IF Len(st.order) >= Cardinality(DOMAIN st.visited)
         THEN [st EXCEPT !.hang = TRUE]
    ELSE IF run_one_module_panics(get, st.ix)
         THEN [st EXCEPT !.panic = TRUE]
         ELSE run_loop(get, [st EXCEPT !.order = Append(st.order, st.ix),
                                       !.visited[st.ix] = NotVisited,
                                       !.ix = st.link[st.ix]])

\* run_graph returning without having processed any module
run_graph_not_run(get, visited, link, root) ==
    [visited |-> visited, link |-> link, order |-> <<>>, panic |-> FALSE,
     ix |-> SENTINEL, hang |-> FALSE, iters |-> 0, pushed |-> <<>>,
     appended |-> <<>>]

\* Graph::run_graph(root, timestamp)
run_graph(get, visited, link, root) ==
    LET t == topo_sort(get, visited, link, root)
        s0 == [visited |-> t.visited, link |-> t.link, order |-> <<>>,
               panic |-> t.panic, ix |-> t.head, hang |-> t.hang,
               iters |-> t.iters, pushed |-> t.pushed, appended |-> t.appended]
    IN IF t.panic \/ t.hang THEN [s0 EXCEPT !.ix = SENTINEL] ELSE run_loop(get, s0)

\* Graph::replace without the migrate call
replace_no_migrate(deref, nodes, ix, item) ==
    [nodes |-> [nodes EXCEPT ![ix] = item], old_item |-> nodes[ix],
     migrate |-> <<>>, panic |-> FALSE]

\* Graph::replace(ix, item): the slot takes item; when the old content is a
\* Node, the module of the node now in the slot (get_node_mut(ix).unwrap())
\* is handed the old module through migrate. deref[item] is the message
\* an Option<Item> holds (None for an empty one).
replace(deref, nodes, ix, item) ==
    LET old_item == nodes[ix]
        oldIsNode == get_node_of(deref[old_item]) /= None
        newIsNode == get_node_of(deref[item]) /= None
    IN [nodes |-> [nodes EXCEPT ![ix] = item],
        old_item |-> old_item,
        migrate |-> IF oldIsNode /\ newIsNode
                    THEN <<[new |-> item, old |-> old_item]>> ELSE <<>>,
        panic |-> oldIsNode /\ ~newIsNode]

\* ------------------------------------------------------------------------
\* SpecG: a Graph under replace and run_graph calls
\* ------------------------------------------------------------------------

GraphIds == 0..(GraphSize - 1)

\* the wiring lists a node of SpecG may be created with
GWirings ==
    {w \in SeqsUpTo({<<s, 0>> : s \in GraphIds}, MaxBufWiring)
           \X SeqsUpTo({<<s, 0>> : s \in GraphIds}, MaxCtrlWiring) :
        Len(w[1]) + Len(w[2]) <= MaxNodeWiring}

\* in SpecG a slot holds the message itself: Item::deref on the Items S
g_deref(S) == [item \in S |-> item]

\* Graph::get_node, for every slot
g_get == [ix \in GraphIds |-> get_node_of(g_nodes[ix])]

\* the wiring entries of the whole graph
WiringCount(nodes) ==
    LET n(ix) == IF nodes[ix].type /= "Node" THEN 0
                 ELSE Len(nodes[ix].in_buf_wiring) + Len(nodes[ix].in_ctrl_wiring)
        RECURSIVE sum(_)
        sum(k) == IF k < 0 THEN 0 ELSE n(k) + sum(k - 1)
    IN sum(GraphSize - 1)

\* no topo_sort has run since the graph was built or changed
NoTopo == [iters |-> 0, pushed |-> <<>>, appended |-> <<>>, hang |-> FALSE]

GInit ==
    /\ g_nodes = [ix \in GraphIds |-> None]
    /\ g_visited = [ix \in GraphIds |-> NotVisited]
    /\ g_link = [ix \in GraphIds |-> 0]
    /\ g_order = <<>>
    /\ g_root = SENTINEL
    /\ g_panic = FALSE
    /\ g_topo = NoTopo

\* the items SpecG passes to replace for slot ix: Some(item) with a
\* Message::Node created by Node::create, or None
GItems(ix) == {NodeMsg(ix, w[1], w[2]) : w \in GWirings} \cup {None}

\* graph.replace(ix, item)
GReplace ==
    /\ ~g_panic /\ ~g_topo.hang
    /\ \E ix \in GraphIds : \E item \in GItems(ix) :
        LET r == replace(g_deref({g_nodes[ix], item}), g_nodes, ix, item)
        IN
        /\ WiringCount(r.nodes) <= MaxGraphWiring
        /\ g_nodes' = r.nodes
        /\ g_panic' = r.panic
    /\ g_order' = <<>>
    /\ g_root' = SENTINEL
    /\ g_topo' = NoTopo
    /\ UNCHANGED <<g_visited, g_link>>
    /\ UNCHANGED nong

\* graph.run_graph(root, timestamp)
GRunGraph ==
    /\ ~g_panic /\ ~g_topo.hang
    /\ \E root \in GraphIds :
        LET r == run_graph(g_get, g_visited, g_link, root) IN
        /\ g_visited' = r.visited
        /\ g_link' = r.link
        /\ g_order' = r.order
        /\ g_panic' = r.panic
        /\ g_root' = root
        /\ g_topo' = [iters |-> r.iters, pushed |-> r.pushed,
                      appended |-> r.appended, hang |-> r.hang]
    /\ UNCHANGED g_nodes
    /\ UNCHANGED nong

GNext ==
    \/ GReplace
    \/ GRunGraph

\* ------------------------------------------------------------------------
\* Claims on the graph runner
\* ------------------------------------------------------------------------

\* the node ids named by the wirings of the node installed at ix
GSources(ix) == IF g_get[ix] = None THEN {} ELSE Range(Children(g_get[ix]))

\* the node ids reachable from the ids of S through wirings
RECURSIVE GReach(_)
GReach(S) ==
    LET T == S \cup UNION {GSources(ix) : ix \in S} IN
    IF T = S THEN S ELSE GReach(T)

\* no installed node reaches itself through wirings
GAcyclic == \A ix \in GraphIds : ix \notin GReach(GSources(ix))

\* position of node ix in the evaluation order of the last run (0: absent)
GPos(ix) ==
    IF \E i \in 1..Len(g_order) : g_order[i] = ix
    THEN CHOOSE i \in 1..Len(g_order) : g_order[i] = ix
    ELSE 0

\* C1: after a run_graph call over an acyclic wiring, every source named
\* by the buffer or control wiring of an evaluated node was evaluated
\* strictly before that node.
C1_SourcesBeforeConsumers ==
    (g_root /= SENTINEL /\ ~g_panic /\ GAcyclic) =>
        \A i \in 1..Len(g_order) : \A src \in GSources(g_order[i]) :
            \E j \in 1..(i - 1) : g_order[j] = src

\* the chain 2 <- 1 <- 0 of the specification's scenario (with the graph
\* capacity of the model), which the code does evaluate sources first
C1_ChainEvaluated ==
    /\ g_root = 0 /\ ~g_panic
    /\ GSources(0) = {1} /\ GSources(1) = {2} /\ GSources(2) = {}
    /\ g_order = <<2, 1, 0>>

\* C11: no replace call panics, whatever the slot and the item (None
\* included). A replace call leaves g_root at SENTINEL, a run_graph call
\* sets it, so a panic with g_root at SENTINEL is a panic of replace.
C11_ReplaceNeverPanics == g_root = SENTINEL => ~g_panic

\* a reachable node of the last run's root lies on a cycle of wirings
GCycleFromRoot == \E ix \in GReach({g_root}) : ix \in GReach(GSources(ix))

\* C12: a run_graph call whose root reaches a cycle of wirings panics and
\* evaluates no node of the cycle.
C12_CycleRefused ==
    (g_root /= SENTINEL /\ GCycleFromRoot) =>
        /\ g_panic
        /\ \A i \in 1..Len(g_order) : g_order[i] \notin GReach(GSources(g_order[i]))

\* C13: no node whose buffer or control wiring names the node itself is
\* ever processed by run_graph.
C13_SelfWiredNeverProcessed ==
    \A i \in 1..Len(g_order) : g_order[i] \notin GSources(g_order[i])

\* an installed node reachable from the last run's root names a source
\* slot that holds no node
GMissingSource ==
    \E ix \in GReach({g_root}) :
        g_get[ix] /= None /\ \E src \in GSources(ix) : g_get[src] = None

\* C14: a run_graph call whose root reaches a node with a wiring to an
\* empty slot panics before any module was processed.
C14_MissingSourcePanicsFirst ==
    (g_root /= SENTINEL /\ GMissingSource) => (g_panic /\ g_order = <<>>)

\* C14 witness: the root 0 reads node 1, node 1 reads the empty slot 2,
\* and the run panicked with nothing processed.
C14_Witness ==
    /\ g_root = 0 /\ g_panic /\ g_order = <<>>
    /\ GSources(0) = {1} /\ g_get[1] /= None /\ GSources(1) = {2}
    /\ g_get[2] = None

\* scratch as Graph::new leaves visited, and link filled with v
CleanVisited == [ix \in GraphIds |-> NotVisited]

FilledLink(v) == [ix \in GraphIds |-> v]

\* C17: the order of a run that returned is the order run_graph computes
\* from the installed nodes and the root alone, whatever the link scratch
\* holds: it equals the order of a run started on a fresh visited array
\* and on a link array filled with any one value.
C17_OrderFromWiringsAndRoot ==
    (g_root /= SENTINEL /\ ~g_panic) =>
        \A v \in GraphIds \cup {SENTINEL} :
            g_order = run_graph(g_get, CleanVisited, FilledLink(v), g_root).order

\* C17 witness: a run from root 1 over 1 <- 0 returned with slot 2's link
\* still holding the SENTINEL an earlier run from root 2 wrote there.
C17_Witness ==
    /\ g_root = 1 /\ ~g_panic /\ g_order = <<0, 1>>
    /\ g_get[2] /= None /\ g_link[2] = SENTINEL

\* C18: whenever no call has panicked (every run_graph call so far has
\* returned), every entry of visited is NotVisited.
C18_VisitedResetAfterRun ==
    ~g_panic => \A ix \in GraphIds : g_visited[ix] = NotVisited

\* C18 witness: a run over three nodes has returned.
C18_Witness ==
    /\ g_root /= SENTINEL /\ ~g_panic /\ Len(g_order) = GraphSize
    /\ \A ix \in GraphIds : g_visited[ix] = NotVisited

\* every slot reachable from the last run's root, the root's included,
\* holds a node
GAllInstalled == \A ix \in GReach({g_root}) : g_get[ix] /= None

\* no node reachable from the last run's root names itself in its buffer
\* wiring
GNoBufSelfWire ==
    \A ix \in GReach({g_root}) :
        g_get[ix] /= None =>
            \A k \in 1..Len(g_get[ix].in_buf_wiring) : g_get[ix].in_buf_wiring[k][1] /= ix

\* the last run returned having processed every node reachable from its
\* root once, the root last
GRanAllRootLast ==
    /\ ~g_panic /\ ~g_topo.hang
    /\ NoDup(g_order)
    /\ Range(g_order) = GReach({g_root})
    /\ Last(g_order) = g_root

C29_TopoSortBounded ==
    (g_root /= SENTINEL /\ GAllInstalled) =>
        /\ ~g_topo.hang
        /\ NoDup(g_topo.pushed)
        /\ NoDup(g_topo.appended)
        /\ Range(g_topo.appended) = Range(g_topo.pushed)
        /\ Range(g_topo.pushed) = GReach({g_root})
        /\ g_topo.iters <= 2 * Cardinality(GReach({g_root}))

\* C29 witness: the sort from root 0 over 0 <- 1, 1 <- 2, 2 <- 1 (node 1
\* is a source of 0 and of 2, and in a cycle with 2) took five turns.
C29_Witness ==
    /\ g_root = 0
    /\ GSources(0) = {1} /\ GSources(1) = {2} /\ GSources(2) = {1}
    /\ g_topo.pushed = <<0, 1, 2>> /\ g_topo.appended = <<2, 1, 0>>
    /\ g_topo.iters = 5

\* C36: the nodes a run_graph(root) call processes are all reachable from
\* the root through buffer and control wirings; an installed node that is
\* not reachable is not processed, so its module, output buffers and output
\* controls are left as they were.
C36_OnlyReachableProcessed ==
    g_root /= SENTINEL => Range(g_order) \subseteq GReach({g_root})

\* C36 witness: a run from root 0 has processed nodes 1 and 0 and returned,
\* while node 2 is installed, wired to node 0, and not reachable from it.
C36_Witness ==
    /\ g_root = 0 /\ ~g_panic /\ g_order = <<1, 0>>
    /\ g_nodes[2] /= None /\ 0 \in GSources(2)
    /\ 2 \notin GReach({0})

\* ------------------------------------------------------------------------
\* SpecQ: the producer's send and the consumer's drain, step by step
\* ------------------------------------------------------------------------

QInit ==
    /\ q_head = NULL
    /\ q_child = [a \in Addrs |-> NULL]
    /\ q_payload = [a \in Addrs |-> 0]
    /\ q_free = Addrs
    /\ p_pc = "idle" /\ p_n = NULL /\ p_old = NULL /\ p_retries = 0
    /\ c_pc = "idle" /\ c_iter = NULL /\ c_move = FALSE /\ c_held = {}
    /\ sentLog = <<>> /\ recvLog = <<>> /\ nsent = 0

\* Queue::send: Item::make_item(payload) allocates a node with a null child,
\* then send_item -> push_raw reads the head (Relaxed load).
Send ==
    /\ p_pc = "idle" /\ nsent < MaxSend
    /\ \E a \in q_free :
        /\ q_free' = q_free \ {a}
        /\ q_payload' = [q_payload EXCEPT ![a] = nsent + 1]
        /\ q_child' = [q_child EXCEPT ![a] = NULL]
        /\ p_n' = a
    /\ p_old' = q_head
    /\ p_retries' = 0
    /\ nsent' = nsent + 1
    /\ p_pc' = "write"
    /\ UNCHANGED <<q_head, c_pc, c_iter, c_move, c_held, sentLog, recvLog>>
    /\ UNCHANGED nonq

\* push_raw, loop body: (*n).child = old_ptr
PushWriteChild ==
    /\ p_pc = "write"
    /\ q_child' = [q_child EXCEPT ![p_n] = p_old]
    /\ p_pc' = "cas"
    /\ UNCHANGED <<p_retries, q_head, q_payload, q_free, p_n, p_old, c_pc, c_iter, c_move,
                   c_held, sentLog, recvLog, nsent>>
    /\ UNCHANGED nonq

\* push_raw: compare_exchange_weak(old_ptr, n) succeeds: Ok(_) => break
PushCasOk ==
    /\ p_pc = "cas" /\ q_head = p_old
    /\ q_head' = p_n
    /\ sentLog' = Append(sentLog, q_payload[p_n])
    /\ p_pc' = "idle" /\ p_n' = NULL /\ p_old' = NULL
    /\ UNCHANGED <<p_retries, q_child, q_payload, q_free, c_pc, c_iter, c_move, c_held,
                   recvLog, nsent>>
    /\ UNCHANGED nonq

\* push_raw: compare_exchange_weak fails (the head differs, or spuriously,
\* as the weak form may): Err(old) => old_ptr = old
PushCasFail ==
    /\ p_pc = "cas"
    /\ p_old' = cas_fail_old(q_head, p_old)
    /\ p_retries' = IF q_head /= p_old /\ p_retries < MaxRetries
                    THEN p_retries + 1 ELSE p_retries
    /\ p_pc' = "write"
    /\ UNCHANGED <<q_head, q_child, q_payload, q_free, p_n, c_pc, c_iter, c_move,
                   c_held, sentLog, recvLog, nsent>>
    /\ UNCHANGED nonq

\* Queue::recv_items / Queue::recv: the pop_all inside them
RecvPopAll ==
    /\ c_pc = "idle"
    /\ \E mv \in BOOLEAN : c_move' = mv
    /\ c_iter' = pop_all(q_head).ret
    /\ q_head' = pop_all(q_head).head
    /\ c_pc' = "reverse"
    /\ UNCHANGED <<p_retries, q_child, q_payload, q_free, p_pc, p_n, p_old, c_held,
                   sentLog, recvLog, nsent>>
    /\ UNCHANGED nonq

\* Queue::recv_items / Queue::recv: Node::reverse(...) of the popped list
RecvReverse ==
    /\ c_pc = "reverse"
    /\ LET r == reverse(q_child, c_iter, NULL) IN
        /\ q_child' = r.child
        /\ c_iter' = r.head
    /\ c_pc' = "iter"
    /\ UNCHANGED <<p_retries, q_head, q_payload, q_free, p_pc, p_n, p_old, c_move, c_held,
                   sentLog, recvLog, nsent>>
    /\ UNCHANGED nonq

\* QueueItemIter::next on a non-null pointer: read the child, yield Item{ptr}
ItemIterNext ==
    /\ c_pc = "iter" /\ ~c_move /\ c_iter /= NULL
    /\ c_held' = c_held \cup {c_iter}
    /\ recvLog' = Append(recvLog, q_payload[c_iter])
    /\ c_iter' = q_child[c_iter]
    /\ UNCHANGED <<p_retries, q_head, q_child, q_payload, q_free, p_pc, p_n, p_old, c_pc,
                   c_move, sentLog, nsent>>
    /\ UNCHANGED nonq

\* QueueMoveIter::next on a non-null pointer: *Box::from_raw(self.0) moves
\* the node out and frees its box, the payload is yielded by value
MoveIterNext ==
    /\ c_pc = "iter" /\ c_move /\ c_iter /= NULL
    /\ q_free' = q_free \cup {c_iter}
    /\ recvLog' = Append(recvLog, q_payload[c_iter])
    /\ c_iter' = q_child[c_iter]
    /\ UNCHANGED <<p_retries, q_head, q_child, q_payload, p_pc, p_n, p_old, c_pc, c_move,
                   c_held, sentLog, nsent>>
    /\ UNCHANGED nonq

\* either iterator on a null pointer: None, the for loop over the drain ends
IterEnd ==
    /\ c_pc = "iter" /\ c_iter = NULL
    /\ c_pc' = "idle"
    /\ UNCHANGED <<p_retries, q_head, q_child, q_payload, q_free, p_pc, p_n, p_old, c_iter,
                   c_move, c_held, sentLog, recvLog, nsent>>
    /\ UNCHANGED nonq

\* try_queue: the Items the worker collected go back on the return queue
\* (from_worker.send_item(thing)), whose rx.recv() frees each node
ReturnItem ==
    /\ \E a \in c_held :
        /\ c_held' = c_held \ {a}
        /\ q_free' = q_free \cup {a}
    /\ UNCHANGED <<p_retries, q_head, q_child, q_payload, p_pc, p_n, p_old, c_pc, c_iter,
                   c_move, sentLog, recvLog, nsent>>
    /\ UNCHANGED nonq

QNext ==
    \/ Send
    \/ PushWriteChild
    \/ PushCasOk
    \/ PushCasFail
    \/ RecvPopAll
    \/ RecvReverse
    \/ ItemIterNext
    \/ MoveIterNext
    \/ IterEnd
    \/ ReturnItem

\* ------------------------------------------------------------------------
\* Claims on the queue
\* ------------------------------------------------------------------------

\* the nodes linked from the queue head
InQueue == Chain(q_child, q_head)

\* the nodes of the list the consumer detached and has not yet yielded
Detached == IF c_pc = "idle" THEN <<>> ELSE Chain(q_child, c_iter)

\* C2: with one producer, the payloads yielded by all drains so far, in
\* the order yielded, are the first payloads sent, in the order sent.
C2_FifoAcrossDrains == IsPrefix(recvLog, sentLog)

\* C2 witness: two drains have yielded three payloads between them, the
\* third sent after the first drain began.
C2_Witness ==
    /\ Len(recvLog) >= 3
    /\ c_pc = "iter"
    /\ Len(Detached) >= 1
    /\ Len(sentLog) = 4

\* the Items owned by a thread: the one the producer is pushing, the ones
\* the consumer was handed
OwnedItems == c_held \cup (IF p_pc = "idle" THEN {} ELSE {p_n})

\* the payloads still on their way: in the queue or in the detached list
PayloadsInFlight == {q_payload[a] : a \in Range(InQueue) \cup Range(Detached)}

\* C3: under every interleaving of the push_raw steps with the consumer's
\* swap, a payload whose send completed is in the queue, in the detached
\* list or was yielded, and only one of the three (no loss, no duplicate);
\* no node is linked twice; a node linked in the queue or in the detached
\* list is neither owned as an Item by a thread nor freed.
C3_NoLossNoDupOwnership ==
    /\ NoDup(recvLog)
    /\ NoDup(InQueue \o Detached)
    /\ Range(sentLog) = Range(recvLog) \cup PayloadsInFlight
    /\ Range(recvLog) \cap PayloadsInFlight = {}
    /\ (Range(InQueue) \cup Range(Detached)) \cap (OwnedItems \cup q_free) = {}

\* C3 witness: the consumer's swap took the list while the producer was
\* between its load and its CAS, so that the producer's old_ptr names a
\* node of the consumer's detached list; the consumer owns an Item it was
\* handed from that list and the producer owns the node it is pushing.
C3_Witness ==
    /\ p_pc = "cas" /\ p_old \in Range(Detached)
    /\ c_pc = "iter" /\ c_held /= {}
    /\ Len(recvLog) >= 1

\* C20: with the one producer of SpecQ, a send fails its CAS at most once
\* for a head that differs from old_ptr (failures with the head equal to
\* old_ptr are the spurious ones of the weak form), and after such a failure
\* the head stays what the producer read, so that the next attempt is not
\* refused by any step of the consumer.
C20_AtMostTwoAttempts ==
    /\ p_retries <= 1
    /\ (p_pc /= "idle" /\ p_retries = 1) => q_head = p_old

\* C20 witness: a send whose first CAS failed because the consumer's swap
\* had emptied the queue completed at its second attempt, during a drain.
C20_Witness ==
    /\ p_pc = "idle" /\ p_retries = 1
    /\ q_head /= NULL /\ q_child[q_head] = NULL
    /\ c_pc = "iter" /\ Len(Detached) >= 1
    /\ Len(sentLog) = nsent

\* ------------------------------------------------------------------------
\* SpecM: Sender clones push concurrently, the Receiver drains with recv()
\* ------------------------------------------------------------------------

Producers == 1..NumProducers

MAddrs == 1..NumMAddrs

MInit ==
    /\ m_head = NULL
    /\ m_child = [a \in MAddrs |-> NULL]
    /\ m_payload = [a \in MAddrs |-> [from |-> 0, seq |-> 0]]
    /\ m_free = MAddrs
    /\ mp_pc = [p \in Producers |-> "idle"]
    /\ mp_n = [p \in Producers |-> NULL]
    /\ mp_old = [p \in Producers |-> NULL]
    /\ mp_nsent = [p \in Producers |-> 0]
    /\ mc_pc = "idle" /\ mc_iter = NULL
    /\ m_sentLog = <<>> /\ m_recvLog = <<>>

\* Sender::send on clone p: make_item allocates the node, push_raw loads
\* the head
MSend(p) ==
    /\ mp_pc[p] = "idle" /\ mp_nsent[p] < MaxSendEach
    /\ \E a \in m_free :
        /\ m_free' = m_free \ {a}
        /\ m_payload' = [m_payload EXCEPT ![a] = [from |-> p, seq |-> mp_nsent[p] + 1]]
        /\ m_child' = [m_child EXCEPT ![a] = NULL]
        /\ mp_n' = [mp_n EXCEPT ![p] = a]
    /\ mp_old' = [mp_old EXCEPT ![p] = m_head]
    /\ mp_nsent' = [mp_nsent EXCEPT ![p] = mp_nsent[p] + 1]
    /\ mp_pc' = [mp_pc EXCEPT ![p] = "write"]
    /\ UNCHANGED <<m_head, mc_pc, mc_iter, m_sentLog, m_recvLog>>
    /\ UNCHANGED nonm

\* push_raw of clone p, loop body: (*n).child = old_ptr
MPushWriteChild(p) ==
    /\ mp_pc[p] = "write"
    /\ m_child' = [m_child EXCEPT ![mp_n[p]] = mp_old[p]]
    /\ mp_pc' = [mp_pc EXCEPT ![p] = "cas"]
    /\ UNCHANGED <<m_head, m_payload, m_free, mp_n, mp_old, mp_nsent, mc_pc, mc_iter,
                   m_sentLog, m_recvLog>>
    /\ UNCHANGED nonm

\* push_raw of clone p: the compare_exchange_weak and its match
MPushCas(p) ==
    /\ mp_pc[p] = "cas"
    /\ LET r == compare_exchange(m_head, mp_old[p], mp_n[p]) IN
        /\ m_head' = r.head
        /\ IF r.ok
           THEN /\ m_sentLog' = Append(m_sentLog, m_payload[mp_n[p]])
                /\ mp_pc' = [mp_pc EXCEPT ![p] = "idle"]
                /\ mp_n' = [mp_n EXCEPT ![p] = NULL]
                /\ mp_old' = [mp_old EXCEPT ![p] = NULL]
           ELSE /\ mp_old' = [mp_old EXCEPT ![p] = r.old]
                /\ mp_pc' = [mp_pc EXCEPT ![p] = "write"]
                /\ UNCHANGED <<m_sentLog, mp_n>>
    /\ UNCHANGED <<m_child, m_payload, m_free, mp_nsent, mc_pc, mc_iter, m_recvLog>>
    /\ UNCHANGED nonm

\* push_raw of clone p: the weak compare-exchange fails although the head
\* is old_ptr; Err(old) carries the same pointer
MPushCasSpurious(p) ==
    /\ mp_pc[p] = "cas" /\ m_head = mp_old[p]
    /\ mp_pc' = [mp_pc EXCEPT ![p] = "write"]
    /\ UNCHANGED <<m_head, m_child, m_payload, m_free, mp_n, mp_old, mp_nsent,
                   mc_pc, mc_iter, m_sentLog, m_recvLog>>
    /\ UNCHANGED nonm

\* Receiver::recv: the pop_all
MRecvPopAll ==
    /\ mc_pc = "idle"
    /\ mc_iter' = pop_all(m_head).ret
    /\ m_head' = pop_all(m_head).head
    /\ mc_pc' = "reverse"
    /\ UNCHANGED <<m_child, m_payload, m_free, mp_pc, mp_n, mp_old, mp_nsent,
                   m_sentLog, m_recvLog>>
    /\ UNCHANGED nonm

\* Receiver::recv: Node::reverse of the popped list
MRecvReverse ==
    /\ mc_pc = "reverse"
    /\ LET r == reverse(m_child, mc_iter, NULL) IN
        /\ m_child' = r.child
        /\ mc_iter' = r.head
    /\ mc_pc' = "iter"
    /\ UNCHANGED <<m_head, m_payload, m_free, mp_pc, mp_n, mp_old, mp_nsent,
                   m_sentLog, m_recvLog>>
    /\ UNCHANGED nonm

\* QueueMoveIter::next on a non-null pointer: the node is freed, its
\* payload yielded
MMoveIterNext ==
    /\ mc_pc = "iter" /\ mc_iter /= NULL
    /\ m_free' = m_free \cup {mc_iter}
    /\ m_recvLog' = Append(m_recvLog, m_payload[mc_iter])
    /\ mc_iter' = m_child[mc_iter]
    /\ UNCHANGED <<m_head, m_child, m_payload, mp_pc, mp_n, mp_old, mp_nsent,
                   mc_pc, m_sentLog>>
    /\ UNCHANGED nonm

\* QueueMoveIter::next on a null pointer: the drain ends
MIterEnd ==
    /\ mc_pc = "iter" /\ mc_iter = NULL
    /\ mc_pc' = "idle"
    /\ UNCHANGED <<m_head, m_child, m_payload, m_free, mp_pc, mp_n, mp_old, mp_nsent,
                   mc_iter, m_sentLog, m_recvLog>>
    /\ UNCHANGED nonm

MNext ==
    \/ \E p \in Producers : MSend(p)
    \/ \E p \in Producers : MPushWriteChild(p)
    \/ \E p \in Producers : MPushCas(p)
    \/ \E p \in Producers : MPushCasSpurious(p)
    \/ MRecvPopAll
    \/ MRecvReverse
    \/ MMoveIterNext
    \/ MIterEnd

\* the nodes linked in the queue of SpecM, and in the consumer's list
MInQueue == Chain(m_child, m_head)

MDetached == IF mc_pc = "idle" THEN <<>> ELSE Chain(m_child, mc_iter)

MInFlight == {m_payload[a] : a \in Range(MInQueue) \cup Range(MDetached)}

\* the payloads of log that producer p sent, in the order of log
FromProducer(log, p) ==
    LET isFrom(x) == x.from = p IN SelectSeq(log, isFrom)

\* C19: with the Sender clones pushing concurrently, under every
\* interleaving of their load / write / CAS steps with the consumer's
\* swap: no payload is yielded twice or linked twice, every payload whose
\* send completed is in the queue, in the detached list or was yielded and
\* only one of these, and the payloads of each producer are yielded in the
\* order that producer sent them.
C19_MultiProducerSafe ==
    /\ NoDup(m_recvLog)
    /\ NoDup(MInQueue \o MDetached)
    /\ Range(m_sentLog) = Range(m_recvLog) \cup MInFlight
    /\ Range(m_recvLog) \cap MInFlight = {}
    /\ \A p \in Producers :
        /\ \A k \in 1..Len(FromProducer(m_sentLog, p)) :
                FromProducer(m_sentLog, p)[k].seq = k
        /\ IsPrefix(FromProducer(m_recvLog, p), FromProducer(m_sentLog, p))

\* C19 witness: both clones are at their CAS holding the same old_ptr, a
\* node the consumer's swap has already taken, while the consumer is
\* yielding the detached list in which the two producers' payloads
\* alternate.
C19_Witness ==
    /\ mp_pc[1] = "cas" /\ mp_pc[2] = "cas"
    /\ mp_old[1] = mp_old[2] /\ mp_old[1] /= NULL /\ m_head = NULL
    /\ mc_pc = "iter" /\ Len(m_recvLog) = 1 /\ Len(m_sentLog) = 2
    /\ m_sentLog[1].from /= m_sentLog[2].from

\* ------------------------------------------------------------------------
\* SpecS: modules/sin.rs under Graph::replace
\* ------------------------------------------------------------------------

\* a Node item of slot 0 whose module is of the given type, as Sin::new /
\* Saw::new leave it (phase: 0.0)
SNode(id, kind) ==
    [type |-> "Node", ix |-> 0, id |-> id, module |-> [kind |-> kind, phase |-> 0]]

\* migrate copying the phase of any predecessor, without the downcast
migrate_unchecked(self, old) ==
    IF self.kind = "Sin" THEN [self EXCEPT !.phase = old.phase] ELSE self

\* self.module.migrate(old): Sin::migrate takes the phase of an old module
\* that downcasts to Sin; the other types keep Module's default (no-op)
migrate(self, old) ==
    IF self.kind = "Sin" /\ old.kind = "Sin"
    THEN [self EXCEPT !.phase = old.phase] ELSE self

\* process: the phase left in self.phase after a chunk, wrapped to the table
process_phase(module, freq) == [module EXCEPT !.phase = (@ + freq) % PhaseSteps]

SInit ==
    /\ s_nodes = [ix \in {0} |-> None]
    /\ s_old = None
    /\ s_made = 0

\* graph.replace(0, Some(item)) with a new Sin or Saw node
SReplace ==
    /\ s_made < MaxModules
    /\ \E kind \in {"Sin", "Saw"} :
        LET item == SNode(s_made + 1, kind)
            r == replace(g_deref({s_nodes[0], item}), s_nodes, 0, item)
        IN /\ s_nodes' = IF r.migrate = <<>> THEN r.nodes
                         ELSE [r.nodes EXCEPT ![0].module =
                                 migrate(r.migrate[1].new.module, r.migrate[1].old.module)]
           /\ s_old' = r.old_item
    /\ s_made' = s_made + 1
    /\ UNCHANGED nons

\* run_graph on the slot: the module's process advances its phase
SProcess ==
    /\ s_nodes[0] /= None
    /\ \E freq \in 1..MaxFreq :
        s_nodes' = [s_nodes EXCEPT ![0].module = process_phase(@, freq)]
    /\ UNCHANGED <<s_old, s_made>>
    /\ UNCHANGED nons

SNext ==
    \/ SReplace
    \/ SProcess

\* C21: a replace step that installs a Sin leaves it with the phase the
\* outgoing module had when the outgoing module is a Sin, and with the
\* initial phase 0 when the outgoing module is of another type or the slot
\* was empty.
C21_SinPhaseMigrates ==
    [][s_made' /= s_made =>
        (s_nodes'[0].module.kind = "Sin" =>
            s_nodes'[0].module.phase =
                IF s_nodes[0] /= None /\ s_nodes[0].module.kind = "Sin"
                THEN s_nodes[0].module.phase ELSE 0)]_vars

\* C21 witness: a Sin was replaced by a Sin when its phase was not 0, and
\* the new one has that phase.
C21_Witness ==
    /\ s_old /= None /\ s_old.module.kind = "Sin" /\ s_old.module.phase /= 0
    /\ s_nodes[0].module.kind = "Sin"
    /\ s_nodes[0].module.phase = s_old.module.phase
    /\ s_nodes[0].id = s_old.id + 1

\* ------------------------------------------------------------------------
\* SpecN: modules/monitor.rs and Core::poll_monitor of engine.rs
\* ------------------------------------------------------------------------

\* capacity of the Vec<f32> of each Item, and the samples of one Buffer
BUF_SIZE == 256

N_SAMPLES_PER_CHUNK == 64

\* the output buffer left as it was
copy_skipped(dst, src) == dst

\* buf_out[0].get_mut().copy_from_slice(buf)
copy_from_slice(dst, src) == src

\* poll_monitor losing the Item instead of sending it back
poll_send_dropped(queue, item) == queue

\* qs.tx.send_item(item) of poll_monitor
poll_send(queue, item) == Append(queue, item)

\* Monitor::new: POOL_SIZE empty Items in the pool, two empty queues
NInit ==
    /\ n_pool = [i \in 1..POOL_SIZE |-> i]
    /\ n_len = [i \in 1..POOL_SIZE |-> 0]
    /\ n_to = <<>>
    /\ n_from = <<>>
    /\ n_ui = <<>>
    /\ n_cur = <<>>
    /\ n_pc = "idle"
    /\ n_in = 0
    /\ n_out = 0
    /\ n_alloc = FALSE

\* process up to the copy: pop cur_buf, take back what the UI returned,
\* copy the input to the output
NProcessCopy ==
    /\ n_pc = "idle"
    /\ \E buf \in 0..MaxSample :
        LET popped == IF n_pool = <<>> THEN <<>> ELSE SubSeq(n_pool, 1, Len(n_pool) - 1)
            pool1 == popped \o n_to
        IN /\ n_cur' = IF n_pool = <<>> THEN <<>> ELSE <<n_pool[Len(n_pool)]>>
           /\ n_pool' = pool1
           /\ n_alloc' = (n_alloc \/ Len(pool1) > POOL_SIZE)
           /\ n_in' = buf
           /\ n_out' = copy_from_slice(n_out, buf)
    /\ n_to' = <<>>
    /\ n_pc' = "copied"
    /\ UNCHANGED <<n_len, n_from, n_ui>>
    /\ UNCHANGED nonn

\* the rest of process: record the chunk in cur_buf, send it when the next
\* chunk would not fit, else put it back on the pool
NProcessRecord ==
    /\ n_pc = "copied"
    /\ IF n_cur = <<>>
       THEN UNCHANGED <<n_pool, n_len, n_from, n_alloc>>
       ELSE LET cur_buf == n_cur[1]
                len1 == n_len[cur_buf] + N_SAMPLES_PER_CHUNK
                full == len1 + N_SAMPLES_PER_CHUNK > BUF_SIZE
            IN /\ n_len' = [n_len EXCEPT ![cur_buf] = len1]
               /\ n_from' = IF full THEN Append(n_from, cur_buf) ELSE n_from
               /\ n_pool' = IF full THEN n_pool ELSE Append(n_pool, cur_buf)
               /\ n_alloc' = (\/ n_alloc
                              \/ len1 > BUF_SIZE
                              \/ ~full /\ Len(n_pool) + 1 > POOL_SIZE)
    /\ n_cur' = <<>>
    /\ n_pc' = "idle"
    /\ UNCHANGED <<n_to, n_ui, n_in, n_out>>
    /\ UNCHANGED nonn

\* poll_monitor: qs.rx.recv_items() takes everything the Monitor has sent
NPollRecv ==
    /\ n_ui = <<>>
    /\ n_from /= <<>>
    /\ n_ui' = n_from
    /\ n_from' = <<>>
    /\ UNCHANGED <<n_pool, n_len, n_to, n_cur, n_pc, n_in, n_out, n_alloc>>
    /\ UNCHANGED nonn

\* poll_monitor, one turn of the loop: copy the samples out, clear the Item,
\* send it back
NPollItem ==
    /\ n_ui /= <<>>
    /\ n_len' = [n_len EXCEPT ![Head(n_ui)] = 0]
    /\ n_to' = poll_send(n_to, Head(n_ui))
    /\ n_ui' = Tail(n_ui)
    /\ UNCHANGED <<n_pool, n_from, n_cur, n_pc, n_in, n_out, n_alloc>>
    /\ UNCHANGED nonn

NNext ==
    \/ NProcessCopy
    \/ NProcessRecord
    \/ NPollRecv
    \/ NPollItem

\* C24: every process call leaves its input in its output; a call that found
\* buf_pool empty changes no Item's recorded samples, sends nothing on the
\* queue to the UI and grows no Vec.
C24_EmptyPoolDropsChunk ==
    [][/\ (n_pc = "idle" /\ n_pc' = "copied" => n_out' = n_in')
       /\ (\/ n_pc = "idle" /\ n_pc' = "copied" /\ n_pool = <<>>
           \/ n_pc = "copied" /\ n_pc' = "idle" /\ n_cur = <<>>)
          => n_len' = n_len /\ n_from' = n_from /\ ~n_alloc']_vars

\* C24 witness: a process call found the pool empty (every Item is full and
\* with the UI or on its way there) and has copied a nonzero input.
C24_Witness ==
    /\ n_pc = "copied" /\ n_cur = <<>> /\ n_pool = <<>>
    /\ n_in = MaxSample /\ n_out = MaxSample
    /\ \A i \in 1..POOL_SIZE : n_len[i] = BUF_SIZE

\* every place an Item of the Monitor can be
NItems == n_pool \o n_to \o n_from \o n_ui \o n_cur

\* C25: at every moment each of the POOL_SIZE Items is in exactly one of
\* buf_pool, the two monitor queues, the UI's hands and the cur_buf of a
\* process call under way; buf_pool never exceeds POOL_SIZE and no Vec grows.
C25_ItemsConserved ==
    /\ Len(NItems) = POOL_SIZE
    /\ Range(NItems) = 1..POOL_SIZE
    /\ Len(n_pool) <= POOL_SIZE
    /\ ~n_alloc

\* C25 witness: Items in both queues and in the UI's hands at once, one of
\* them already returned by poll_monitor.
C25_Witness ==
    /\ n_to /= <<>> /\ n_from /= <<>> /\ n_ui /= <<>>
    /\ n_len[n_to[1]] = 0

\* ------------------------------------------------------------------------
\* SpecI: id_allocator.rs
\* ------------------------------------------------------------------------

\* IdAllocator::new()
IdAllocator_new == [free |-> <<>>, highwater |-> 0]

\* alloc: the top of the free list, else highwater
alloc(a) ==
    IF a.free /= <<>>
    THEN [a |-> [a EXCEPT !.free = SubSeq(@, 1, Len(@) - 1)], id |-> a.free[Len(a.free)]]
    ELSE [a |-> [a EXCEPT !.highwater = @ + 1], id |-> a.highwater]

\* free lowering highwater to whatever id is freed
free_always_lowers(a, id) == [a EXCEPT !.highwater = id]

\* free: lower highwater for the topmost id, else push on the free list
free(a, id) ==
    IF id = a.highwater - 1 THEN [a EXCEPT !.highwater = id]
    ELSE [a EXCEPT !.free = Append(@, id)]

\* reserve leaving the id in the free list
reserve_keeps_free(a, id) ==
    IF id = a.highwater THEN [a |-> [a EXCEPT !.highwater = @ + 1], panic |-> FALSE]
    ELSE [a |-> a, panic |-> id \notin Range(a.free)]

\* reserve: raise highwater, or take the id out of the free list, or panic
reserve(a, id) ==
    IF id = a.highwater THEN [a |-> [a EXCEPT !.highwater = @ + 1], panic |-> FALSE]
    ELSE IF id \in Range(a.free)
         THEN [a |-> [a EXCEPT !.free = SelectSeq(@, LAMBDA x : x /= id)], panic |-> FALSE]
         ELSE [a |-> a, panic |-> TRUE]

IInit ==
    /\ i_alloc = IdAllocator_new
    /\ i_issued = {}
    /\ i_op = "new"
    /\ i_arg = 0
    /\ i_panic = FALSE

\* let id = id_alloc.alloc()
IAlloc ==
    /\ ~i_panic
    /\ i_alloc.free /= <<>> \/ i_alloc.highwater < MaxId
    /\ LET r == alloc(i_alloc)
       IN /\ i_alloc' = r.a
          /\ i_arg' = r.id
          /\ i_issued' = i_issued \cup {r.id}
    /\ i_op' = "alloc"
    /\ UNCHANGED i_panic
    /\ UNCHANGED noni

\* id_alloc.free(id), of an id the caller holds
IFree ==
    /\ ~i_panic
    /\ \E id \in i_issued :
        /\ i_alloc' = free(i_alloc, id)
        /\ i_arg' = id
        /\ i_issued' = i_issued \ {id}
    /\ i_op' = "free"
    /\ UNCHANGED i_panic
    /\ UNCHANGED noni

\* id_alloc.reserve(id), of any id
IReserve ==
    /\ ~i_panic
    /\ \E id \in 0..(MaxId - 1) :
        LET r == reserve(i_alloc, id)
        IN /\ i_alloc' = r.a
           /\ i_panic' = r.panic
           /\ i_arg' = id
           /\ i_issued' = IF r.panic THEN i_issued ELSE i_issued \cup {id}
    /\ i_op' = "reserve"
    /\ UNCHANGED noni

INext ==
    \/ IAlloc
    \/ IFree
    \/ IReserve

\* C26: with free called only on ids the caller holds, no alloc step returns
\* an id the caller already holds.
C26_AllocNeverIssued ==
    [][i_op' = "alloc" => i_arg' \notin i_issued]_vars

\* C26 witness: alloc has just reused id 1 from the free list while ids 0
\* and 2 are held.
C26_Witness ==
    /\ i_op = "alloc" /\ i_arg = 1
    /\ i_issued = {0, 1, 2}
    /\ i_alloc.highwater = 3 /\ i_alloc.free = <<>>

\* C37: the ids not issued are exactly the ids of the free list and the ids
\* from highwater up; the free list holds no id twice, no issued id and no
\* id at or above highwater.
C37_FreeListInvariant ==
    /\ NoDup(i_alloc.free)
    /\ Range(i_alloc.free) \cap i_issued = {}
    /\ \A id \in Range(i_alloc.free) : id < i_alloc.highwater
    /\ \A id \in 0..MaxId :
          id \notin i_issued <=> (id \in Range(i_alloc.free) \/ id >= i_alloc.highwater)

\* C37 witness: ids 0 and 2 issued, id 1 freed in between and kept on the
\* free list, id 3 reserved and freed again from the top.
C37_Witness ==
    /\ i_issued = {0, 2}
    /\ i_alloc.free = <<1>> /\ i_alloc.highwater = 3
    /\ i_op = "free" /\ i_arg = 3

\* C27 as stated: a reserve call panics only when its id is held (allocated
\* or reserved); reserve of an id nobody holds succeeds.
C27_ReservePanicsOnlyIfIssued ==
    i_panic => i_arg \in i_issued

\* ------------------------------------------------------------------------
\* SpecA: modules/adsr.rs
\* ------------------------------------------------------------------------
\* Adsr.value and the level controls are held in units of 2^-GridBits, the
\* spacing of the representable values; linear levels are held in units of
\* 2^-24 / Unit, so that the level of the floor value -24.0 is Unit.

Unit == 2 ^ GridBits

\* the floor value -24.0
Floor == (0 - 24) * Unit

\* the linear level 1.0
One == (2 ^ 24) * Unit

\* the release rates of the model: a rate up to GridBits gives a step of
\* whole grid units, GridBits + 1 half a unit, GridBits + 2 a quarter
Rates == 0..(GridBits + 2)

\* the attack and decay rates of the model: a step of one grid unit, and a
\* step too small to change the value
EnvRates == {GridBits, GridBits + 2}

\* the level controls of the model: control_in[2] of 0.0 and of 6.0
SustainCtrls == {0, 6 * Unit}

\* value.exp2(), linear between two powers of two
exp2(value) == (2 ^ ((value \div Unit) + 24)) * (Unit + (value % Unit))

\* (-control).exp2() as a linear level
exp2_neg(rate) == (2 ^ (24 - rate)) * Unit

\* l.log2(), rounded down to the grid
log2(l) ==
    CHOOSE w \in Floor..0 : exp2(w) <= l /\ (w = 0 \/ exp2(w + 1) > l)

\* a subtraction that never changes the value
sub_exp2_absorbed(value, rate) == value

\* value - (-control).exp2(), rounded to the nearest grid value, ties to even
sub_exp2(value, rate) ==
    IF rate <= GridBits THEN value - 2 ^ (GridBits - rate)
    ELSE IF rate = GridBits + 1 /\ value % 2 = 1 THEN value - 1
    ELSE value

\* Adsr::new()
Adsr_new == [value |-> Floor, state |-> "Quiet"]

\* handle_note that restarts the envelope from the floor
handle_note_reset(adsr, on) ==
    [value |-> Floor, state |-> IF on THEN "Attack" ELSE "Release"]

\* handle_note(_midi_num, _velocity, on)
handle_note(adsr, on) ==
    [adsr EXCEPT !.state = IF on THEN "Attack" ELSE "Release"]

\* a Release arm that goes Quiet without the clamp to -24.0
release_arm_unclamped(adsr, ctrl) ==
    LET value == sub_exp2(adsr.value, ctrl[4])
    IN [value |-> value, state |-> IF value < Floor THEN "Quiet" ELSE "Release"]

\* the Release arm of process
release_arm(adsr, ctrl) ==
    LET value == sub_exp2(adsr.value, ctrl[4])
    IN IF value < Floor THEN [value |-> Floor, state |-> "Quiet"]
       ELSE [adsr EXCEPT !.value = value]

\* the match of process on self.state, control_in[i] being ctrl[i + 1]
adsr_match(adsr, ctrl) ==
    CASE adsr.state = "Quiet" -> adsr
      [] adsr.state = "Attack" ->
            LET l == exp2(adsr.value) + exp2_neg(ctrl[1])
            IN IF l >= One THEN [value |-> log2(One), state |-> "Decay"]
               ELSE [adsr EXCEPT !.value = log2(l)]
      [] adsr.state = "Decay" ->
            LET sustain == ctrl[3] - 6 * Unit
                value == sub_exp2(adsr.value, ctrl[2])
            IN IF value < sustain THEN [value |-> sustain, state |-> "Sustain"]
               ELSE [adsr EXCEPT !.value = value]
      [] adsr.state = "Sustain" -> [adsr EXCEPT !.value = ctrl[3] - 6 * Unit]
      [] adsr.state = "Release" -> release_arm(adsr, ctrl)

\* process running the match on its own result before it returns
process_fallthrough(adsr, ctrl) ==
    LET a1 == adsr_match(adsr_match(adsr, ctrl), ctrl)
    IN [adsr |-> a1, out |-> a1.value]

\* process: the match, then control_out[0] = self.value
process(adsr, ctrl) ==
    LET a1 == adsr_match(adsr, ctrl)
    IN [adsr |-> a1, out |-> a1.value]

AInit ==
    /\ a_value = Adsr_new.value
    /\ a_state = Adsr_new.state
    /\ a_ctrl = <<GridBits, GridBits, 0, 0>>
    /\ a_out = 0
    /\ a_op = "new"

\* a Note message reaches the node
ANote ==
    /\ \E on \in BOOLEAN :
        LET a1 == handle_note([value |-> a_value, state |-> a_state], on)
        IN /\ a_value' = a1.value
           /\ a_state' = a1.state
           /\ a_op' = IF on THEN "note_on" ELSE "note_off"
    /\ UNCHANGED <<a_ctrl, a_out>>
    /\ UNCHANGED nona

\* run_graph processes the node with the controls wired to it
AProcess ==
    /\ LET r == process([value |-> a_value, state |-> a_state], a_ctrl)
       IN /\ a_value' = r.adsr.value
          /\ a_state' = r.adsr.state
          /\ a_out' = r.out
    /\ a_op' = "process"
    /\ UNCHANGED a_ctrl
    /\ UNCHANGED nona

\* one of the nodes wired to the control inputs changes its output
ACtrl ==
    /\ \E i \in 1..4 :
       \E x \in (IF i = 3 THEN SustainCtrls ELSE IF i = 4 THEN Rates ELSE EnvRates) :
        /\ x /= a_ctrl[i]
        /\ a_ctrl' = [a_ctrl EXCEPT ![i] = x]
    /\ a_op' = "ctrl"
    /\ UNCHANGED <<a_value, a_state, a_out>>
    /\ UNCHANGED nona

ANext ==
    \/ ANote
    \/ AProcess
    \/ ACtrl

\* C22: a note-on step leaves the envelope in Attack and a note-off step in
\* Release, whatever the state was, and neither changes the value.
C22_NoteSetsStateOnly ==
    [][/\ a_op' = "note_on" => a_state' = "Attack" /\ a_value' = a_value
       /\ a_op' = "note_off" => a_state' = "Release" /\ a_value' = a_value]_vars

\* C22 witness: a note-on has put the envelope in Attack at a level
\* strictly between the floor and full level.
C22_Witness ==
    /\ a_op = "note_on" /\ a_state = "Attack"
    /\ a_value > Floor /\ a_value < 0

\* C23 as stated: from Release, process calls eventually reach Quiet with
\* value and output at the floor, unless a note-on comes first.
C23_AsStated ==
    (a_state = "Release")
        ~> (\/ a_state = "Quiet" /\ a_value = Floor /\ a_out = Floor
            \/ a_state = "Attack")

\* C23: from Release, while the release rate gives a step of at least one
\* grid unit, process calls eventually reach Quiet with value and output at
\* the floor, unless a note-on comes first; and only a note event leaves
\* Quiet.
C23_ReleaseReachesQuiet ==
    /\ (a_state = "Release" /\ a_ctrl[4] <= GridBits)
          ~> (\/ a_state = "Quiet" /\ a_value = Floor /\ a_out = Floor
              \/ a_state = "Attack"
              \/ a_ctrl[4] > GridBits)
    /\ [][a_state = "Quiet" /\ a_state' /= "Quiet"
             => a_op' \in {"note_on", "note_off"}]_vars

\* C23 witness: a release under way, process having brought the value and
\* the output to one grid unit above the floor.
C23_Witness ==
    /\ a_state = "Release" /\ a_op = "process"
    /\ a_ctrl[4] = GridBits
    /\ a_value = Floor + 1 /\ a_out = a_value

\* C39: whenever the envelope is Quiet its value is exactly the floor -24.
C39_QuietAtFloor ==
    a_state = "Quiet" => a_value = Floor

\* C39 witness: the envelope is Quiet again after a process call, with the
\* output written from the floor value while the sustain level is 0.
C39_Witness ==
    /\ a_state = "Quiet" /\ a_op = "process"
    /\ a_value = Floor /\ a_out = Floor
    /\ a_ctrl[3] = 6 * Unit /\ a_ctrl[4] = GridBits

\* C30: a process step keeps the state or makes exactly one of these moves:
\* Attack to Decay when the linear level reaches 1, leaving value 0; Decay to
\* Sustain when the lowered value is below control input 2 minus 6; Release
\* to Quiet when the lowered value is below the floor, leaving the floor.
\* No process step leaves Quiet or Sustain.
C30_ProcessTransitions ==
    [][a_op' = "process" =>
        \/ a_state' = a_state
        \/ /\ a_state = "Attack" /\ a_state' = "Decay"
           /\ exp2(a_value) + exp2_neg(a_ctrl[1]) >= One
           /\ a_value' = 0
        \/ /\ a_state = "Decay" /\ a_state' = "Sustain"
           /\ sub_exp2(a_value, a_ctrl[2]) < a_ctrl[3] - 6 * Unit
        \/ /\ a_state = "Release" /\ a_state' = "Quiet"
           /\ sub_exp2(a_value, a_ctrl[4]) < Floor
           /\ a_value' = Floor]_vars

\* C30 witness: process has just moved the envelope from Attack to Decay,
\* with sustain below the value so that the next call does not follow on.
C30_Witness ==
    /\ a_op = "process" /\ a_state = "Decay"
    /\ a_value = 0 /\ a_out = 0
    /\ a_ctrl[3] = 0

\* ------------------------------------------------------------------------
\* worker.rs: Worker, with the messages of graph.rs
\* ------------------------------------------------------------------------

WIds == 0..(WorkerSize - 1)

WItems == 1..NumItems

\* Worker.root, set by Worker::create
WorkerRoot == 0

\* a message timestamp later than the timestamp of every work call
FutureTs == MaxCalls + 1

\* Message::SetParam(SetParam)
SetParamMsg(ix, param_ix, val, timestamp) ==
    [type |-> "SetParam", ix |-> ix, param_ix |-> param_ix, val |-> val,
     timestamp |-> timestamp]

\* Message::Note(Note)
NoteMsg(ixs, midi_num, velocity, on, timestamp) ==
    [type |-> "Note", ixs |-> ixs, midi_num |-> midi_num, velocity |-> velocity,
     on |-> on, timestamp |-> timestamp]

\* Message::Quit
QuitMsg == [type |-> "Quit"]

\* the messages the control thread of SpecW may send
WMessages ==
    {NodeMsg(ix, bw, <<>>) : ix \in WIds, bw \in SeqsUpTo({<<s, 0>> : s \in WIds}, 1)}
    \cup {SetParamMsg(WorkerRoot, 0, v, t) : v \in 1..MaxParamVal, t \in {0, FutureTs}}
    \cup {NoteMsg(ixs, 60, 100, TRUE, 0) : ixs \in {<<0>>, <<0, 1>>}}
    \cup {QuitMsg}

\* Item::deref of an Option<Item>: the message held, None for no Item
w_deref == [item \in WItems \cup {NULL} |-> IF item = NULL THEN None ELSE w_payload[item]]

\* Graph::get_node(ix) on the slots nodes
w_get_in(nodes, ix) == get_node_of(w_deref[nodes[ix]])

\* Graph::get_node, for every slot of the worker's graph
w_get == [ix \in WIds |-> w_get_in(w_nodes, ix)]

\* a module as Node::create leaves it: no parameter set, no note, output
\* buffers never written (out is the timestamp of the chunk last written)
NewModule == [param |-> 0, param_ts |-> 0, note |-> 0, out |-> 0]

\* Queue::push_raw at its successful compare_exchange: n.child is the old
\* head and the head is n (SpecQ has the steps before it)
push_raw(head, child, n) == [head |-> n, child |-> [child EXCEPT ![n] = head]]

\* self.from_worker.send_item(item) left out: the Item is let go of
send_item_back_dropped(S, item) == S

\* self.from_worker.send_item(item), on the worker's state record S
send_item_back(S, item) ==
    LET r == push_raw(S.out_head, S.child, item) IN
    [S EXCEPT !.out_head = r.head, !.child = r.child]

\* the Note arm with an if let in place of the unwrap: an id without a
\* node is skipped
RECURSIVE note_loop_skip_missing(_, _, _)
note_loop_skip_missing(S, note, i) ==
    IF i > Len(note.ixs) THEN S
    ELSE IF w_get_in(S.nodes, note.ixs[i]) = None
         THEN note_loop_skip_missing(S, note, i + 1)
         ELSE note_loop_skip_missing(
                [S EXCEPT !.mod[S.nodes[note.ixs[i]]].note = note.midi_num],
                note, i + 1)

\* handle_item, Message::Note arm: the for loop over note.ixs;
\* get_module_mut(ix) unwraps the node
RECURSIVE note_loop(_, _, _)
note_loop(S, note, i) ==
    IF i > Len(note.ixs) THEN S
    ELSE IF w_get_in(S.nodes, note.ixs[i]) = None
         THEN [S EXCEPT !.panic = TRUE]
         ELSE note_loop([S EXCEPT !.mod[S.nodes[note.ixs[i]]].note = note.midi_num],
                        note, i + 1)

\* the displaced Item is let go of instead of being sent back
ship_displaced_dropped(S, old_item) == S

\* handle_item, after graph.replace: if let Some(old_item) = old_item
\* { self.from_worker.send_item(old_item) }
ship_displaced(S, old_item) ==
    IF old_item /= NULL THEN send_item_back(S, old_item) ELSE S

\* Worker::handle_item(item) on the worker's state record S
handle_item(item, S) ==
    LET msg == w_payload[item] IN
    CASE msg.type = "Node" ->
            LET r == replace(w_deref, S.nodes, msg.ix, item)
                S1 == [S EXCEPT !.nodes = r.nodes,
                                !.replaced = Append(S.replaced,
                                    [ix |-> msg.ix, item |-> item, old_item |-> r.old_item]),
                                !.migrations = S.migrations \o r.migrate,
                                !.panic = r.panic]
            IN ship_displaced(S1, r.old_item)
      [] msg.type = "SetParam" ->
            IF w_get_in(S.nodes, msg.ix) = None
            THEN [S EXCEPT !.panic = TRUE]
            ELSE send_item_back(
                    [S EXCEPT !.mod[S.nodes[msg.ix]].param = msg.val,
                              !.mod[S.nodes[msg.ix]].param_ts = msg.timestamp],
                    item)
      [] msg.type = "Note" ->
            LET S1 == note_loop(S, msg, 1) IN
            IF S1.panic THEN S1 ELSE send_item_back(S1, item)
      [] OTHER -> [S EXCEPT !.dropped = S.dropped \cup {item}]

\* QueueItemIter::next reading the child link after the Item was handled
iter_next_late(child_before, child_after, p) == child_after[p]

\* QueueItemIter::next: self.0 = (*self.0).child is read before the Item
\* is yielded to the loop body
iter_next(child_before, child_after, p) == child_before[p]

\* ------------------------------------------------------------------------
\* SpecW: the control thread sends and receives, the worker works
\* ------------------------------------------------------------------------

WInit ==
    /\ w_payload = [i \in WItems |-> None]
    /\ w_child = [i \in WItems |-> NULL]
    /\ w_nalloc = 0
    /\ in_head = NULL /\ out_head = NULL
    /\ w_nodes = [ix \in WIds |-> NULL]
    /\ w_visited = [ix \in WIds |-> NotVisited]
    /\ w_link = [ix \in WIds |-> 0]
    /\ w_mod = [i \in WItems |-> NewModule]
    /\ w_pc = "idle" /\ w_iter = NULL /\ w_calls = 0
    /\ w_result = [call |-> 0, item |-> NULL, out |-> 0]
    /\ w_sentAt = [i \in WItems |-> 0]
    /\ w_applied = <<>>
    /\ w_appliedAt = [i \in WItems |-> 0]
    /\ w_returned = <<>> /\ w_dropped = {}
    /\ w_replaced = <<>> /\ w_migrations = <<>>

\* control thread: tx.send(msg) = send_item(Item::make_item(msg))
CtlSend ==
    /\ w_nalloc < NumItems
    /\ \E msg \in WMessages :
        LET item == w_nalloc + 1
            r == push_raw(in_head, w_child, item)
        IN /\ w_payload' = [w_payload EXCEPT ![item] = msg]
           /\ in_head' = r.head
           /\ w_child' = r.child
           /\ w_sentAt' = [w_sentAt EXCEPT ![item] = w_calls]
    /\ w_nalloc' = w_nalloc + 1
    /\ UNCHANGED <<out_head, w_nodes, w_visited, w_link, w_mod, w_pc, w_iter,
                   w_calls, w_result, w_applied, w_appliedAt,
                   w_returned, w_dropped, w_replaced, w_migrations>>
    /\ UNCHANGED nonw

\* control thread: for m in rx.recv() { } on a non-empty queue: pop_all,
\* reverse, every node yielded and freed
CtlRecv ==
    /\ out_head /= NULL
    /\ LET r == reverse(w_child, pop_all(out_head).ret, NULL) IN
        /\ w_returned' = w_returned \o Chain(r.child, r.head)
        /\ w_child' = r.child
    /\ out_head' = pop_all(out_head).head
    /\ UNCHANGED <<w_payload, w_nalloc, in_head, w_nodes, w_visited, w_link, w_mod,
                   w_pc, w_iter, w_calls, w_result, w_sentAt, w_applied,
                   w_appliedAt, w_dropped, w_replaced, w_migrations>>
    /\ UNCHANGED nonw

\* Worker::work(timestamp), entry: self.to_worker.recv_items()
WorkRecvItems ==
    /\ w_pc = "idle" /\ w_calls < MaxCalls
    /\ LET r == reverse(w_child, pop_all(in_head).ret, NULL) IN
        /\ w_iter' = r.head
        /\ w_child' = r.child
    /\ in_head' = pop_all(in_head).head
    /\ w_calls' = w_calls + 1
    /\ w_pc' = "iter"
    /\ UNCHANGED <<w_payload, w_nalloc, out_head, w_nodes, w_visited, w_link, w_mod,
                   w_result, w_sentAt, w_applied, w_appliedAt,
                   w_returned, w_dropped, w_replaced, w_migrations>>
    /\ UNCHANGED nonw

\* Worker::work, one turn of the for loop: the iterator yields the next
\* Item and handle_item dispatches it
WorkHandleItem ==
    /\ w_pc = "iter" /\ w_iter /= NULL
    /\ LET item == w_iter
           S == handle_item(item,
                    [nodes |-> w_nodes, mod |-> w_mod, out_head |-> out_head,
                     child |-> w_child, dropped |-> w_dropped,
                     replaced |-> w_replaced, migrations |-> w_migrations,
                     panic |-> FALSE])
       IN /\ w_iter' = iter_next(w_child, S.child, item)
          /\ w_nodes' = S.nodes
          /\ w_mod' = S.mod
          /\ out_head' = S.out_head
          /\ w_child' = S.child
          /\ w_dropped' = S.dropped
          /\ w_replaced' = S.replaced
          /\ w_migrations' = S.migrations
          /\ w_pc' = IF S.panic THEN "panic" ELSE "iter"
          /\ w_applied' = Append(w_applied, item)
          /\ w_appliedAt' = [w_appliedAt EXCEPT ![item] = w_calls]
    /\ UNCHANGED <<w_payload, w_nalloc, in_head, w_visited, w_link, w_calls,
                   w_result, w_sentAt, w_returned>>
    /\ UNCHANGED nonw

\* Worker::work after the for loop: self.graph.run_graph(self.root,
\* timestamp), then self.graph.get_out_bufs(self.root) is returned
\* (get_out_bufs unwraps the root's node: it panics on an empty slot)
WorkRunGraph ==
    /\ w_pc = "iter" /\ w_iter = NULL
    /\ LET r == run_graph(w_get, w_visited, w_link, WorkerRoot)
           ran == {w_nodes[r.order[k]] : k \in 1..Len(r.order)}
           mod1 == [i \in WItems |->
                        IF i \in ran THEN [w_mod[i] EXCEPT !.out = w_calls]
                        ELSE w_mod[i]]
       IN /\ w_visited' = r.visited
          /\ w_link' = r.link
          /\ w_mod' = mod1
          /\ w_pc' = IF r.hang THEN "hang"
                     ELSE IF r.panic \/ w_nodes[WorkerRoot] = NULL THEN "panic"
                     ELSE "idle"
          /\ w_result' = IF r.hang \/ r.panic \/ w_nodes[WorkerRoot] = NULL THEN w_result
                         ELSE [call |-> w_calls, item |-> w_nodes[WorkerRoot],
                               out |-> mod1[w_nodes[WorkerRoot]].out]
    /\ UNCHANGED <<w_payload, w_child, w_nalloc, in_head, out_head, w_nodes, w_iter,
                   w_calls, w_sentAt, w_applied, w_appliedAt,
                   w_returned, w_dropped, w_replaced, w_migrations>>
    /\ UNCHANGED nonw

WNext ==
    \/ CtlSend
    \/ CtlRecv
    \/ WorkRecvItems
    \/ WorkHandleItem
    \/ WorkRunGraph

\* ------------------------------------------------------------------------
\* Claims on the worker
\* ------------------------------------------------------------------------

\* the Items the control thread has sent
WSent == 1..w_nalloc

\* the Item is installed in a graph slot
InSlot(i) == \E ix \in WIds : w_nodes[ix] = i

Reversed(seq) == [k \in 1..Len(seq) |-> seq[Len(seq) + 1 - k]]

\* the Items that went on the outbound queue, in the order sent: the ones
\* rx.recv() yielded, then the ones still linked (the head is the latest)
OutboundOrder == w_returned \o Reversed(Chain(w_child, out_head))

\* the Items not yet yielded by an inbound drain: linked from the inbound
\* head, or in the list the worker's iterator holds
InboundPending ==
    Range(Chain(w_child, in_head))
        \cup (IF w_pc = "iter" THEN Range(Chain(w_child, w_iter)) ELSE {})

\* the Node Items for slot ix among the Items of seq, in the order of seq
NodeItemsFor(seq, ix) ==
    LET isNodeFor(i) == w_payload[i].type = "Node" /\ w_payload[i].ix = ix
    IN SelectSeq(seq, isNodeFor)

SetMax(S) == CHOOSE x \in S : \A y \in S : y <= x

\* C4: when a work call has returned, every Item its drains handed to
\* handle_item is installed in a graph slot or was sent on the outbound
\* queue, whatever its message.
C4_EveryItemInstalledOrSent ==
    w_pc = "idle" =>
        \A i \in Range(w_applied) : InSlot(i) \/ i \in Range(OutboundOrder)

\* C5: for every slot, with k >= 1 Node messages for it dispatched, the
\* Items sent on the outbound queue for that slot are the first k-1 of
\* them in dispatch order and the k-th is installed; with none dispatched
\* the slot is empty and nothing was sent back for it.
C5_DisplacedItemsSentBack ==
    \A ix \in WIds :
        LET disp == NodeItemsFor(w_applied, ix)
            k == Len(disp)
        IN /\ NodeItemsFor(OutboundOrder, ix) = SubSeq(disp, 1, k - 1)
           /\ w_nodes[ix] = IF k = 0 THEN NULL ELSE disp[k]

\* C5 witness: three Node messages for the root were dispatched, the
\* first two are back with the control thread or on their way, the third
\* is installed.
C5_Witness ==
    /\ Len(NodeItemsFor(w_applied, WorkerRoot)) = 3
    /\ Len(NodeItemsFor(OutboundOrder, WorkerRoot)) = 2
    /\ Len(w_returned) >= 1
    /\ w_nodes[WorkerRoot] = 3

\* C6: handle_item is called on the Items in the order they were sent
\* (Items are numbered as sent), so the installed node of a slot is the
\* last-sent Node dispatched for it and the parameter of the root's module
\* is the val of the last-sent SetParam dispatched since it was installed.
C6_AppliedInSendOrder ==
    /\ \A j, k \in 1..Len(w_applied) : j < k => w_applied[j] < w_applied[k]
    /\ \A ix \in WIds :
        LET nodeItems == Range(NodeItemsFor(w_applied, ix)) IN
        nodeItems /= {} => w_nodes[ix] = SetMax(nodeItems)
    /\ LET root == w_nodes[WorkerRoot]
           params == {i \in Range(w_applied) :
                        /\ w_payload[i].type = "SetParam"
                        /\ w_payload[i].ix = WorkerRoot
                        /\ i > root}
       IN root /= NULL =>
            w_mod[root].param =
                IF params = {} THEN 0 ELSE w_payload[SetMax(params)].val

\* C6 witness: one drain yielded two SetParam messages for the root with
\* different values, and the later-sent value is the module's parameter
\* when run_graph is about to start.
C6_Witness ==
    /\ w_pc = "iter" /\ w_iter = NULL
    /\ Len(w_applied) = 3
    /\ w_appliedAt[2] = w_appliedAt[3]
    /\ w_payload[2].type = "SetParam" /\ w_payload[3].type = "SetParam"
    /\ w_payload[2].val /= w_payload[3].val
    /\ w_mod[w_nodes[WorkerRoot]].param = w_payload[3].val

\* the for loop of the current work call has ended: run_graph is about
\* to start, or the call has returned
DrainDispatched == w_pc = "idle" \/ (w_pc = "iter" /\ w_iter = NULL)

\* C7: an Item whose send completed before the drain of work call c is
\* dispatched in call c, before that call's run_graph, and in no other
\* call; an Item sent after that drain is not dispatched in call c; until
\* it is dispatched an Item stays in the inbound queue or in the drained
\* list, and none is dispatched twice.
C7_ObservableThisChunkOrNext ==
    /\ \A i \in WSent :
        /\ w_appliedAt[i] /= 0 => w_appliedAt[i] = w_sentAt[i] + 1
        /\ (DrainDispatched /\ w_sentAt[i] < w_calls) => w_appliedAt[i] /= 0
        /\ (w_pc /= "panic" /\ w_appliedAt[i] = 0) => i \in InboundPending
        /\ w_appliedAt[i] /= 0 => i \notin InboundPending
    /\ NoDup(w_applied)

\* C7 witness: the second work call has dispatched an Item that was sent
\* while the first call was between its drain and its run_graph, and an
\* Item sent after the second drain waits in the inbound queue.
C7_Witness ==
    /\ w_calls = 2 /\ w_pc = "idle"
    /\ w_sentAt[1] = 0 /\ w_appliedAt[1] = 1
    /\ w_sentAt[2] = 1 /\ w_appliedAt[2] = 2
    /\ w_sentAt[3] = 2 /\ w_appliedAt[3] = 0 /\ in_head = 3

\* C8: when work(ts) has returned, every Item its drain took was
\* dispatched before run_graph, a SetParam with a timestamp later than ts
\* included (its val and timestamp are in the module); the buffers handed
\* out are those of the node installed at the root, written by this call's
\* run; a Node for the root dispatched in this call is that node.
C8_DrainThenRunThenRootOutput ==
    (w_pc = "idle" /\ w_calls >= 1) =>
        /\ \A i \in WSent : w_sentAt[i] < w_calls => w_appliedAt[i] /= 0
        /\ w_result.call = w_calls
        /\ w_result.item = w_nodes[WorkerRoot]
        /\ w_result.item /= NULL
        /\ w_result.out = w_calls
        /\ LET swapped == {i \in WSent : /\ w_appliedAt[i] = w_calls
                                         /\ w_payload[i].type = "Node"
                                         /\ w_payload[i].ix = WorkerRoot}
           IN swapped /= {} => w_result.item = SetMax(swapped)
        /\ LET late == {i \in WSent : /\ w_appliedAt[i] = w_calls
                                      /\ w_payload[i].type = "SetParam"
                                      /\ w_payload[i].timestamp > w_calls}
           IN \A i \in late :
                (\A j \in WSent : j > i => w_appliedAt[j] = 0 \/ w_payload[j].type = "Quit")
                    => /\ w_mod[w_result.item].param = w_payload[i].val
                       /\ w_mod[w_result.item].param_ts = w_payload[i].timestamp

\* C8 witness: the second work call replaced the root's node and applied
\* a SetParam timestamped later than the call, and returned the new
\* node's buffers written in that call.
C8_Witness ==
    /\ w_pc = "idle" /\ w_calls = 2
    /\ w_appliedAt[1] = 1 /\ w_appliedAt[2] = 2 /\ w_appliedAt[3] = 2
    /\ w_payload[2].type = "Node" /\ w_payload[2].ix = WorkerRoot
    /\ w_payload[3].type = "SetParam" /\ w_payload[3].timestamp = FutureTs
    /\ w_result = [call |-> 2, item |-> 2, out |-> 2]
    /\ w_mod[2].param_ts = FutureTs

\* C9: once a Quit message was dispatched, no message sent after it is
\* dispatched.
C9_NothingAppliedAfterQuit ==
    \A i, j \in WSent :
        (w_payload[i].type = "Quit" /\ w_appliedAt[i] /= 0 /\ j > i)
            => w_appliedAt[j] = 0

\* the replace calls before the k-th that addressed the same slot
EarlierReplaces(k) ==
    {j \in 1..(k - 1) : w_replaced[j].ix = w_replaced[k].ix}

\* the migrate calls made on the module of Item i
MigrateCalls(i) == {m \in 1..Len(w_migrations) : w_migrations[m].new = i}

\* C10: every replace(ix, Some(Node n)) call returned the Item the slot
\* held before it (None for a slot never filled) and the slot holds n until
\* the next call for ix; migrate was called on n's module once, with the
\* outgoing Item's module, when a Node was displaced, and not at all when
\* the slot was empty.
C10_ReplaceStoresReturnsMigrates ==
    \A k \in 1..Len(w_replaced) :
        LET e == w_replaced[k]
            earlier == EarlierReplaces(k)
            later == {j \in (k + 1)..Len(w_replaced) : w_replaced[j].ix = e.ix}
        IN /\ e.old_item = IF earlier = {} THEN NULL
                           ELSE w_replaced[SetMax(earlier)].item
           /\ later = {} => w_nodes[e.ix] = e.item
           /\ e.old_item = NULL => MigrateCalls(e.item) = {}
           /\ e.old_item /= NULL =>
                /\ Cardinality(MigrateCalls(e.item)) = 1
                /\ \A m \in MigrateCalls(e.item) : w_migrations[m].old = e.old_item

\* C10 witness: a Node was installed in an empty slot without a migrate
\* call, and a later Node for the same slot displaced it, with one migrate
\* call handing over the outgoing Item's module; the old Item is on the
\* outbound queue.
C10_Witness ==
    /\ Len(w_replaced) = 2
    /\ w_replaced[1].old_item = NULL
    /\ w_replaced[2].ix = w_replaced[1].ix
    /\ w_replaced[2].old_item = w_replaced[1].item
    /\ w_migrations = <<[new |-> w_replaced[2].item, old |-> w_replaced[1].item]>>
    /\ out_head = w_replaced[1].item

\* the node ids a SetParam or a Note is addressed to
Targets(msg) ==
    IF msg.type = "SetParam" THEN {msg.ix}
    ELSE IF msg.type = "Note" THEN Range(msg.ixs)
    ELSE {}

\* the message of Item i is addressed to a slot that holds no node
MissingTarget(i) == \E ix \in Targets(w_payload[i]) : w_get[ix] = None

\* a step in which handle_item is called on the Item the iterator holds
Dispatches == w_pc = "iter" /\ w_iter /= NULL /\ w_applied' /= w_applied

\* C15: every handle_item call on a SetParam or a Note addressed to a slot
\* without a node panics; the Item is not sent on as if it had been
\* applied.
C15_MissingTargetPanics ==
    [][(Dispatches /\ MissingTarget(w_iter))
            => (w_pc' = "panic" /\ out_head' = out_head)]_vars

\* C15 witness: a Note for the ids 0 and 1 was dispatched with a node at 0
\* and none at 1: handle_note reached node 0's module, then the worker
\* panicked and the Item was not sent back.
C15_Witness ==
    /\ w_pc = "panic" /\ w_applied /= <<>>
    /\ w_payload[Last(w_applied)].type = "Note"
    /\ w_payload[Last(w_applied)].ixs = <<0, 1>>
    /\ w_nodes[0] /= NULL /\ w_nodes[1] = NULL
    /\ w_mod[w_nodes[0]].note = w_payload[Last(w_applied)].midi_num
    /\ Last(w_applied) \notin Range(OutboundOrder)

\* number of occurrences of x in seq
Count(seq, x) == Cardinality({k \in 1..Len(seq) : seq[k] = x})

\* the handle_item call on Item i is the one that panicked
PanickedOn(i) == w_pc = "panic" /\ i = Last(w_applied) /\ MissingTarget(i)

\* C16: a SetParam or Note Item is never in a graph slot; it is on the
\* outbound queue (or back with the control thread) exactly once when
\* handle_item has returned from it and not at all before; and the step
\* that sends it has set the parameter, or the note, on the module of
\* every target.
C16_ParamNoteItemsSentOnce ==
    /\ [](\A i \in WSent :
            w_payload[i].type \in {"SetParam", "Note"} =>
                /\ ~InSlot(i)
                /\ Count(OutboundOrder, i) =
                        IF i \in Range(w_applied) /\ ~PanickedOn(i) THEN 1 ELSE 0)
    /\ [][(Dispatches /\ out_head' = w_iter) =>
            LET msg == w_payload[w_iter] IN
            /\ msg.type = "SetParam" =>
                /\ w_mod'[w_nodes[msg.ix]].param = msg.val
                /\ w_mod'[w_nodes[msg.ix]].param_ts = msg.timestamp
            /\ msg.type = "Note" =>
                \A ix \in Range(msg.ixs) : w_mod'[w_nodes[ix]].note = msg.midi_num]_vars

\* C16 witness: a Note for the nodes 0 and 1 was dispatched, both modules
\* have its note, and the Item came back to the control thread.
C16_Witness ==
    /\ w_pc = "idle" /\ Len(w_applied) = 3
    /\ w_payload[3].type = "Note" /\ w_payload[3].ixs = <<0, 1>>
    /\ w_mod[w_nodes[0]].note = w_payload[3].midi_num
    /\ w_mod[w_nodes[1]].note = w_payload[3].midi_num
    /\ w_returned = <<3>>

\* ------------------------------------------------------------------------
\* SpecR: queue.rs with Items sent again: two clones of the Sender, a
\* consumer that sends the Items of its drain on while it iterates
\* ------------------------------------------------------------------------

RItems == 1..NumRItems

RProducers == 1..2

\* r_gen of the node a pointer names
r_gen_of(ptr) == IF ptr = NULL THEN 0 ELSE r_gen[ptr]

RInit ==
    /\ r_head = NULL /\ r_out = NULL
    /\ r_child = [a \in RItems |-> NULL]
    /\ r_own = [a \in RItems |-> "pool"]
    /\ r_gen = [a \in RItems |-> 0]
    /\ rp_pc = [p \in RProducers |-> "idle"]
    /\ rp_n = [p \in RProducers |-> NULL]
    /\ rp_old = [p \in RProducers |-> NULL]
    /\ rp_seen = [p \in RProducers |-> 0]
    /\ rc_pc = "idle" /\ rc_iter = NULL /\ rc_resent = {}
    /\ r_aba = FALSE

\* Sender::send_item(item) -> push_raw: let mut old_ptr = head.load(Relaxed)
RSendItem(p) ==
    /\ rp_pc[p] = "idle"
    /\ \E a \in RItems :
        /\ r_own[a] = "pool" /\ r_gen[a] < MaxGen
        /\ rp_n' = [rp_n EXCEPT ![p] = a]
        /\ r_own' = [r_own EXCEPT ![a] = "pushing"]
    /\ rp_old' = [rp_old EXCEPT ![p] = r_head]
    /\ rp_seen' = [rp_seen EXCEPT ![p] = r_gen_of(r_head)]
    /\ rp_pc' = [rp_pc EXCEPT ![p] = "write"]
    /\ UNCHANGED <<r_head, r_out, r_child, r_gen, rc_pc, rc_iter, rc_resent, r_aba>>
    /\ UNCHANGED nonr

\* push_raw, loop body: n.child = old_ptr
RPushWriteChild(p) ==
    /\ rp_pc[p] = "write"
    /\ r_child' = [r_child EXCEPT ![rp_n[p]] = rp_old[p]]
    /\ rp_pc' = [rp_pc EXCEPT ![p] = "cas"]
    /\ UNCHANGED <<r_head, r_out, r_own, r_gen, rp_n, rp_old, rp_seen, rc_pc, rc_iter,
                   rc_resent, r_aba>>
    /\ UNCHANGED nonr

\* push_raw: the compare_exchange_weak; Ok(_) => break, Err(old) =>
\* old_ptr = old
RPushCas(p) ==
    /\ rp_pc[p] = "cas"
    /\ LET r == compare_exchange(r_head, rp_old[p], rp_n[p]) IN
        IF r.ok
        THEN /\ r_head' = r.head
             /\ r_own' = [r_own EXCEPT ![rp_n[p]] = "queue"]
             /\ r_gen' = [r_gen EXCEPT ![rp_n[p]] = @ + 1]
             /\ r_aba' = (r_aba \/ r_gen_of(rp_old[p]) /= rp_seen[p])
             /\ rp_pc' = [rp_pc EXCEPT ![p] = "idle"]
             /\ rp_n' = [rp_n EXCEPT ![p] = NULL]
             /\ rp_old' = [rp_old EXCEPT ![p] = NULL]
             /\ rp_seen' = [rp_seen EXCEPT ![p] = 0]
        ELSE /\ rp_old' = [rp_old EXCEPT ![p] = cas_fail_old(r_head, rp_old[p])]
             /\ rp_seen' = [rp_seen EXCEPT ![p] = r_gen_of(r_head)]
             /\ rp_pc' = [rp_pc EXCEPT ![p] = "write"]
             /\ UNCHANGED <<r_head, r_own, r_gen, r_aba, rp_n>>
    /\ UNCHANGED <<r_out, r_child, rc_pc, rc_iter, rc_resent>>
    /\ UNCHANGED nonr

\* Receiver::recv_items(): pop_all and Node::reverse
RRecvItems ==
    /\ rc_pc = "idle" /\ r_head /= NULL
    /\ LET r == reverse(r_child, pop_all(r_head).ret, NULL) IN
        /\ rc_iter' = r.head
        /\ r_child' = r.child
    /\ r_head' = pop_all(r_head).head
    /\ rc_pc' = "iter"
    /\ UNCHANGED <<r_out, r_own, r_gen, rp_pc, rp_n, rp_old, rp_seen, rc_resent, r_aba>>
    /\ UNCHANGED nonr

\* one turn of the for loop over the drain: next() yields the Item, the body
\* sends it on the same queue again (its push_raw taken at the CAS that
\* succeeds)
RIterResend ==
    /\ rc_pc = "iter" /\ rc_iter /= NULL /\ r_gen[rc_iter] < MaxGen
    /\ LET item == rc_iter
           r == push_raw(r_head, r_child, item)
       IN /\ rc_iter' = iter_next(r_child, r.child, item)
          /\ r_head' = r.head
          /\ r_child' = r.child
          /\ r_gen' = [r_gen EXCEPT ![item] = @ + 1]
          /\ rc_resent' = rc_resent \cup {item}
    /\ UNCHANGED <<r_out, r_own, rp_pc, rp_n, rp_old, rp_seen, rc_pc, r_aba>>
    /\ UNCHANGED nonr

\* one turn of the for loop over the drain: next() yields the Item, the body
\* sends it on the return queue (Worker::handle_item, Core::poll_monitor)
RIterReturn ==
    /\ rc_pc = "iter" /\ rc_iter /= NULL
    /\ LET item == rc_iter
           r == push_raw(r_out, r_child, item)
       IN /\ rc_iter' = iter_next(r_child, r.child, item)
          /\ r_out' = r.head
          /\ r_child' = r.child
          /\ r_own' = [r_own EXCEPT ![item] = "out"]
    /\ UNCHANGED <<r_head, r_gen, rp_pc, rp_n, rp_old, rp_seen, rc_pc, rc_resent, r_aba>>
    /\ UNCHANGED nonr

\* next() on a null pointer: the for loop ends
RIterEnd ==
    /\ rc_pc = "iter" /\ rc_iter = NULL
    /\ rc_pc' = "idle"
    /\ rc_resent' = {}
    /\ UNCHANGED <<r_head, r_out, r_child, r_own, r_gen, rp_pc, rp_n, rp_old, rp_seen,
                   rc_iter, r_aba>>
    /\ UNCHANGED nonr

\* the producers' side drains the return queue: its Items can be sent again
RRecycle ==
    /\ r_out /= NULL
    /\ r_own' = [a \in RItems |->
                    IF a \in Range(Chain(r_child, r_out)) THEN "pool" ELSE r_own[a]]
    /\ r_out' = pop_all(r_out).head
    /\ UNCHANGED <<r_head, r_child, r_gen, rp_pc, rp_n, rp_old, rp_seen, rc_pc, rc_iter,
                   rc_resent, r_aba>>
    /\ UNCHANGED nonr

RNext ==
    \/ \E p \in RProducers : RSendItem(p)
    \/ \E p \in RProducers : RPushWriteChild(p)
    \/ \E p \in RProducers : RPushCas(p)
    \/ RRecvItems
    \/ RIterResend
    \/ RIterReturn
    \/ RIterEnd
    \/ RRecycle

\* the Items linked from the queue head
RInQueue == Chain(r_child, r_head)

\* the Items of the drain not yet yielded
RDetached == IF rc_pc = "idle" THEN <<>> ELSE Chain(r_child, rc_iter)

\* C33: while a drain is iterated, a turn of the loop that yields an Item and
\* sends it on (on the same queue or on the return queue) leaves exactly the
\* rest of the drain to be yielded, and no other step changes what is left.
C33_ResendKeepsDrain ==
    [][rc_pc = "iter" /\ rc_pc' = "iter" =>
          RDetached' = IF rc_iter' = rc_iter THEN RDetached ELSE Tail(RDetached)]_vars

\* C33 witness: of a drain of three Items the first was sent on the same
\* queue again, the second on the return queue, and the third is still to
\* be yielded.
C33_Witness ==
    /\ rc_pc = "iter" /\ Len(RDetached) = 1
    /\ Cardinality(rc_resent) = 1 /\ rc_resent \subseteq Range(RInQueue)
    /\ r_out /= NULL /\ r_out \notin rc_resent

\* C34: the Items pushed and not yet yielded are, each exactly once, in the
\* chain from the head or in the drained list, and both chains end; this
\* holds also after a CAS that succeeded on a head pushed again since the
\* producer read it.
C34_AbaSafe ==
    /\ NoDup(RInQueue \o RDetached)
    /\ Range(RInQueue \o RDetached) = {a \in RItems : r_own[a] = "queue"}
    /\ Len(RInQueue \o RDetached) <= NumRItems

\* C34 witness: a CAS has succeeded although the node at old_ptr had been
\* drained and pushed again since the read, and the queue holds that node
\* below the one pushed.
C34_Witness ==
    /\ r_aba
    /\ Len(RInQueue) >= 2
    /\ r_gen[RInQueue[2]] = 2

\* ------------------------------------------------------------------------
\* SpecX: run_one_module gathering the inputs of a node into the scratch
\* arrays of run_graph
\* ------------------------------------------------------------------------

\* maximum number of buffer inputs, of control inputs
MAX_BUF == 16

MAX_CTRL == 16

\* the slots of the graph of SpecX: the root 0 and its one source 1
XIds == {0, 1}

\* out_ctrl[ctrl_ix] of node mod_ix, each output with a value of its own
x_out_ctrl(mod_ix, ctrl_ix) == 100 * mod_ix + ctrl_ix + 1

\* the gathering loop stopping at the end of the scratch array
RECURSIVE gather_truncating(_, _, _)
gather_truncating(wiring, max, i) ==
    IF i > Len(wiring) \/ i > max THEN [panic |-> FALSE, gathered |-> <<>>]
    ELSE LET rest == gather_truncating(wiring, max, i + 1)
         IN [rest EXCEPT !.gathered = <<wiring[i]>> \o @]

\* for (i, &(mod_ix, buf_ix)) in wiring.iter().enumerate() { bufs[i] = ... }
\* on a scratch array of max entries: the entries gathered, in order, or
\* the panic of the index expression once i reaches max
RECURSIVE gather(_, _, _)
gather(wiring, max, i) ==
    IF i > Len(wiring) THEN [panic |-> FALSE, gathered |-> <<>>]
    ELSE IF i > max THEN [panic |-> TRUE, gathered |-> <<>>]
    ELSE LET rest == gather(wiring, max, i + 1)
         IN [rest EXCEPT !.gathered = <<wiring[i]>> \o @]

\* run_one_module(module_ix) after its asserts and unwraps: the buffer
\* pointers and the control values handed to process_ts
run_one_module_inputs(node) ==
    LET b == gather(node.in_buf_wiring, MAX_BUF, 1)
        c == gather(node.in_ctrl_wiring, MAX_CTRL, 1)
    IN [panic |-> b.panic \/ c.panic,
        buf_in |-> b.gathered,
        ctrl_in |-> [i \in 1..Len(c.gathered) |->
                        x_out_ctrl(c.gathered[i][1], c.gathered[i][2])]]

\* the lengths of the wiring lists of SpecX
XLens == {0, 1, MAX_BUF, MAX_BUF + 1}

\* the wiring lists of the root: n entries naming the outputs of node 1,
\* in rising or in falling order
XWirings ==
    {[i \in 1..n |-> <<1, i - 1>>] : n \in XLens}
        \cup {[i \in 1..n |-> <<1, n - i>>] : n \in XLens}

\* Node::create for slot 0 with any of the wirings, for slot 1 with none
XItems(ix) ==
    IF ix = 0 THEN {NodeMsg(0, b, c) : b \in XWirings, c \in XWirings}
    ELSE {NodeMsg(ix, <<>>, <<>>)}

x_get == [ix \in XIds |-> get_node_of(x_nodes[ix])]

XInit ==
    /\ x_nodes = [ix \in XIds |-> None]
    /\ x_res = "none"
    /\ x_in = <<>>

\* graph.replace(ix, Some(item)) with a node made by Node::create
XReplace ==
    /\ x_res \in {"none", "ok"}
    /\ \E ix \in XIds : \E item \in XItems(ix) :
        LET r == replace(g_deref({x_nodes[ix], item}), x_nodes, ix, item)
        IN /\ x_nodes' = r.nodes
           /\ x_res' = IF r.panic THEN "replace panic" ELSE "none"
    /\ x_in' = <<>>
    /\ UNCHANGED nonx

\* graph.run_graph(0, timestamp): the sort, then run_one_module for each
\* node of the list
XRunGraph ==
    /\ x_res \in {"none", "ok"}
    /\ LET r == run_graph(x_get, [ix \in XIds |-> NotVisited], [ix \in XIds |-> 0], 0)
           ins == [k \in 1..Len(r.order) |-> run_one_module_inputs(x_get[r.order[k]])]
       IN IF r.panic \/ r.hang
          THEN x_res' = "unwrap" /\ x_in' = <<>>
          ELSE IF \E k \in 1..Len(ins) : ins[k].panic
               THEN x_res' = "index out of bounds" /\ x_in' = <<>>
               ELSE x_res' = "ok" /\ x_in' = <<ins[Len(ins)]>>
    /\ UNCHANGED x_nodes
    /\ UNCHANGED nonx

XNext ==
    \/ XReplace
    \/ XRunGraph

\* C35: no replace of a node made by Node::create panics, whatever the
\* length of its wiring lists; a run_graph call on a root whose sources are
\* installed panics with an index out of bounds when the root has more than
\* MAX_BUF buffer wirings or more than MAX_CTRL control wirings, and
\* otherwise hands process_ts one buffer pointer per buffer wiring and one
\* control value per control wiring, in wiring order.
C35_ScratchArrayBounds ==
    /\ x_res /= "replace panic"
    /\ (x_res /= "none" /\ x_nodes[0] /= None /\ x_nodes[1] /= None) =>
        LET root == x_nodes[0] IN
        IF Len(root.in_buf_wiring) > MAX_BUF \/ Len(root.in_ctrl_wiring) > MAX_CTRL
        THEN x_res = "index out of bounds"
        ELSE /\ x_res = "ok"
             /\ x_in[1].buf_in = root.in_buf_wiring
             /\ x_in[1].ctrl_in =
                    [i \in 1..Len(root.in_ctrl_wiring) |->
                        x_out_ctrl(root.in_ctrl_wiring[i][1], root.in_ctrl_wiring[i][2])]

\* C35 witness: a root with MAX_BUF + 1 buffer wirings and MAX_CTRL control
\* wirings was installed and the run over it has panicked.
C35_Witness ==
    /\ x_res = "index out of bounds"
    /\ x_nodes[1] /= None
    /\ Len(x_nodes[0].in_buf_wiring) = MAX_BUF + 1
    /\ Len(x_nodes[0].in_ctrl_wiring) = MAX_CTRL

\* ------------------------------------------------------------------------
\* SpecK: modules/smooth_ctrl.rs
\* ------------------------------------------------------------------------
\* Timestamps are 0..MaxTs and parameter values 0..MaxVal. The filters are
\* taken in whole steps: an advance with a nonzero rate moves mid to inp and
\* out to the mid before it, one with rate and rategoal 0 moves neither.

\* SmoothCtrl::new(value)
SmoothCtrl_new(value) ==
    [rate |-> 0, rategoal |-> 0, t |-> 0, last_set_t |-> 0,
     inp |-> value, mid |-> value, out |-> value]

\* advance_to without the early return
advance_to_unchecked(sc, t) ==
    [sc EXCEPT !.rate = sc.rategoal,
               !.out = IF sc.rategoal = 0 /\ sc.rate = 0 THEN @ ELSE sc.mid,
               !.mid = IF sc.rategoal = 0 /\ sc.rate = 0 THEN @ ELSE sc.inp,
               !.t = t]

\* advance_to(t): nothing for t <= self.t, else the filters move and
\* self.t = t
advance_to(sc, t) ==
    IF t <= sc.t THEN sc
    ELSE [sc EXCEPT !.rate = sc.rategoal,
                    !.out = IF sc.rategoal = 0 /\ sc.rate = 0 THEN @ ELSE sc.mid,
                    !.mid = IF sc.rategoal = 0 /\ sc.rate = 0 THEN @ ELSE sc.inp,
                    !.t = t]

\* process_ts(.., timestamp): advance_to, then control_out[0] = self.out
process_ts(sc, timestamp) == advance_to(sc, timestamp)

\* set_param(_, val, timestamp): advance_to; a timestamp after last_set_t
\* sets rategoal (the larger the sooner after the last setting, never
\* below the slowest rate, here 1) and last_set_t; self.inp = val
set_param(sc, val, timestamp) ==
    LET s1 == advance_to(sc, timestamp)
        s2 == IF timestamp > s1.last_set_t
              THEN [s1 EXCEPT !.rategoal = IF timestamp - s1.last_set_t = 1 THEN 2 ELSE 1,
                              !.last_set_t = timestamp]
              ELSE s1
    IN [s2 EXCEPT !.inp = val]

KInit ==
    /\ k_sc = SmoothCtrl_new(0)
    /\ k_call = [op |-> "new", ts |-> 0, val |-> 0]

\* run_graph reaches the node: process_ts with the timestamp of that call
KProcessTs ==
    /\ \E timestamp \in 0..MaxTs :
        /\ k_sc' = process_ts(k_sc, timestamp)
        /\ k_call' = [op |-> "process_ts", ts |-> timestamp, val |-> 0]
    /\ UNCHANGED nonk

\* a SetParam message reaches the node
KSetParam ==
    /\ \E timestamp \in 0..MaxTs : \E val \in 0..MaxVal :
        /\ k_sc' = set_param(k_sc, val, timestamp)
        /\ k_call' = [op |-> "set_param", ts |-> timestamp, val |-> val]
    /\ UNCHANGED nonk

KNext ==
    \/ KProcessTs
    \/ KSetParam

\* C38: no call lowers t or last_set_t; a call whose timestamp is not after
\* t leaves t, rate, mid and out as they were; every set_param call leaves
\* its value in inp, a stale one too.
C38_ClockMonotone ==
    [][/\ k_sc'.t >= k_sc.t
       /\ k_sc'.last_set_t >= k_sc.last_set_t
       /\ k_call'.ts <= k_sc.t =>
             /\ k_sc'.t = k_sc.t /\ k_sc'.rate = k_sc.rate
             /\ k_sc'.mid = k_sc.mid /\ k_sc'.out = k_sc.out
       /\ k_call'.op = "set_param" => k_sc'.inp = k_call'.val]_vars

\* C38 witness: a set_param with a timestamp before t has stored its value
\* while the filters, still on their way to the value set before, and both
\* clocks stayed where they were.
C38_Witness ==
    /\ k_call.op = "set_param" /\ k_call.ts < k_sc.t
    /\ k_call.ts < k_sc.last_set_t
    /\ k_sc.inp = k_call.val
    /\ k_sc.mid /= k_sc.inp /\ k_sc.out /= k_sc.mid

\* ------------------------------------------------------------------------
\* engine.rs: Core and Midi
\* ------------------------------------------------------------------------
\* A Core is its id_alloc and, in sent, the messages it has passed to
\* self.tx.send in order. An Option is a sequence of length 0 or 1.

\* Core::new: the allocator with id 0 reserved
Core_new == [id_alloc |-> reserve(IdAllocator_new, 0).a, sent |-> <<>>]

\* Core::create_node(module, in_buf_wiring, in_ctrl_wiring): a fresh id,
\* and the node sent
create_node(core, in_buf_wiring, in_ctrl_wiring) ==
    LET r == alloc(core.id_alloc) IN
    [core |-> [id_alloc |-> r.a,
               sent |-> Append(core.sent, NodeMsg(r.id, in_buf_wiring, in_ctrl_wiring))],
     id |-> r.id]

\* Core::update_sum_node(sum_node, outputs): a Sum over output 0 of every
\* id of outputs, sent for slot sum_node
update_sum_node(core, sum_node, outputs) ==
    [core EXCEPT !.sent = Append(@,
        NodeMsg(sum_node, [i \in 1..Len(outputs) |-> <<outputs[i], 0>>], <<>>))]

\* init_monosynth with the root rewired before the synth is built: the id
\* the monitor is going to get is wired into slot 0 first
init_monosynth_root_first(core) ==
    LET c0 == update_sum_node(core, 0, <<core.id_alloc.highwater + 15>>)
        note_pitch == create_node(c0, <<>>, <<>>)
        adsr == create_node(note_pitch.core, <<>>, <<>>)
    IN [core |-> adsr.core,
        control_map |-> [cutoff |-> adsr.id, reso |-> adsr.id, attack |-> adsr.id,
                         decay |-> adsr.id, sustain |-> adsr.id, release |-> adsr.id,
                         ext |-> adsr.id, note_receivers |-> <<note_pitch.id, adsr.id>>]]

\* the create_node calls of init_monosynth in the order of the code: for
\* each, the places in this list of the nodes named in its in_buf_wiring
\* (b) and in its in_ctrl_wiring (c), every one wired by its output 0
MonoSynthNodes ==
    << [b |-> <<>>, c |-> <<>>],                \*  1 note_pitch
       [b |-> <<>>, c |-> <<1>>],               \*  2 saw
       [b |-> <<>>, c |-> <<>>],                \*  3 cutoff
       [b |-> <<>>, c |-> <<>>],                \*  4 reso
       [b |-> <<2>>, c |-> <<3, 4>>],           \*  5 filter_out
       [b |-> <<>>, c |-> <<>>],                \*  6 attack
       [b |-> <<>>, c |-> <<>>],                \*  7 decay
       [b |-> <<>>, c |-> <<>>],                \*  8 sustain
       [b |-> <<>>, c |-> <<>>],                \*  9 release
       [b |-> <<>>, c |-> <<6, 7, 8, 9>>],      \* 10 adsr
       [b |-> <<5>>, c |-> <<10>>],             \* 11 env_out
       [b |-> <<>>, c |-> <<>>],                \* 12 ext
       [b |-> <<>>, c |-> <<>>],                \* 13 ext_gain
       [b |-> <<12>>, c |-> <<13>>],            \* 14 ext_atten
       [b |-> <<11, 14>>, c |-> <<>>],          \* 15 monitor_in
       [b |-> <<15>>, c |-> <<>>] >>            \* 16 monitor

\* the wiring list [(ids[p], 0) for p in places]
WiringTo(ids, places) == [i \in 1..Len(places) |-> <<ids[places[i]], 0>>]

\* the create_node calls of init_monosynth from call k on; ids are the ids
\* the calls before it returned
RECURSIVE create_nodes(_, _, _)
create_nodes(core, ids, k) ==
    IF k > Len(MonoSynthNodes) THEN [core |-> core, ids |-> ids]
    ELSE LET r == create_node(core, WiringTo(ids, MonoSynthNodes[k].b),
                              WiringTo(ids, MonoSynthNodes[k].c))
         IN create_nodes(r.core, Append(ids, r.id), k + 1)

\* Core::init_monosynth: the nodes of the mono synth, the root rewired to
\* the monitor at the end; the ControlMap
init_monosynth(core) ==
    LET r == create_nodes(core, <<>>, 1) IN
    [core |-> update_sum_node(r.core, 0, <<r.ids[16]>>),
     control_map |-> [cutoff |-> r.ids[3], reso |-> r.ids[4], attack |-> r.ids[6],
                      decay |-> r.ids[7], sustain |-> r.ids[8], release |-> r.ids[9],
                      ext |-> r.ids[12], note_receivers |-> <<r.ids[1], r.ids[10]>>]]

\* Core::instantiate_module(_, ty): for Sin and for Saw alike a SmoothCtrl
\* for the pitch, then the oscillator with the pitch as its control input
instantiate_module(core, ty) ==
    LET pitch == create_node(core, <<>>, <<>>)
    IN create_node(pitch.core, <<>>, <<<<pitch.id, 0>>>>)

\* Engine::set_outputs(outputs): the sum node is control_map.ext when the
\* engine has a Midi, the root otherwise
set_outputs(core, midi, outputs) ==
    update_sum_node(core, IF midi /= <<>> THEN midi[1].control_map.ext ELSE 0, outputs)

\* Midi::new(control_map)
Midi_new(control_map) == [control_map |-> control_map, cur_note |-> <<>>]

\* Midi::set_ctrl_const(core, value, lo, hi, ix, ts): the value scaled from
\* 0..127 to lo..hi, in thousandths
set_ctrl_const(value, lo, hi, ix, ts) ==
    SetParamMsg(ix, 0, lo + (value * (hi - lo)) \div 127, ts)

\* dispatch_midi sending every note-off, whatever the current note
RECURSIVE dispatch_midi_all_offs(_, _, _, _)
dispatch_midi_all_offs(S, data, ts, i) ==
    IF i > Len(data) THEN S
    ELSE IF data[i] \in {144, 128} /\ i + 2 <= Len(data)
    THEN LET on == data[i] = 144 /\ data[i + 2] > 0 IN
         dispatch_midi_all_offs(
             [S EXCEPT !.sent = Append(@, NoteMsg(S.midi.control_map.note_receivers,
                                                  data[i + 1], data[i + 2], on, ts)),
                       !.midi.cur_note = IF on THEN <<data[i + 1]>> ELSE <<>>],
             data, ts, i + 3)
    ELSE S

\* Midi::dispatch_midi(core, data, ts), from byte i of data on; S is the
\* Midi, the messages sent and whether an index was out of bounds.
\* 176 is 0xb0, 144 is 0x90 and 128 is 0x80.
RECURSIVE dispatch_midi(_, _, _, _)
dispatch_midi(S, data, ts, i) ==
    IF i > Len(data) THEN S
    ELSE IF data[i] = 176
    THEN IF i + 2 > Len(data) THEN [S EXCEPT !.panic = TRUE]
         ELSE LET controller == data[i + 1]
                  value == data[i + 2]
                  cm == S.midi.control_map
                  msgs == CASE controller = 1 -> <<set_ctrl_const(value, 0, 14425, cm.cutoff, ts)>>
                            [] controller = 2 -> <<set_ctrl_const(value, 0, 995, cm.reso, ts)>>
                            [] controller = 5 -> <<set_ctrl_const(value, 0, 10000, cm.attack, ts)>>
                            [] controller = 6 -> <<set_ctrl_const(value, 0, 10000, cm.decay, ts)>>
                            [] controller = 7 -> <<set_ctrl_const(value, 0, 6000, cm.sustain, ts)>>
                            [] controller = 8 -> <<set_ctrl_const(value, 0, 10000, cm.release, ts)>>
                            [] OTHER -> <<>>
              IN dispatch_midi([S EXCEPT !.sent = @ \o msgs], data, ts, i + 3)
    ELSE IF data[i] = 144 \/ data[i] = 128
    THEN IF i + 2 > Len(data) THEN [S EXCEPT !.panic = TRUE]
         ELSE LET midi_num == data[i + 1]
                  velocity == data[i + 2]
                  on == data[i] = 144 /\ velocity > 0
              IN IF on \/ S.midi.cur_note = <<midi_num>>
                 THEN dispatch_midi(
                         [S EXCEPT !.sent = Append(@,
                                       NoteMsg(S.midi.control_map.note_receivers,
                                               midi_num, velocity, on, ts)),
                                   !.midi.cur_note = IF on THEN <<midi_num>> ELSE <<>>],
                         data, ts, i + 3)
                 ELSE dispatch_midi(S, data, ts, i + 3)
    ELSE S

\* ------------------------------------------------------------------------
\* SpecD: MIDI data dispatched by the Midi of a mono synth
\* ------------------------------------------------------------------------

\* the events of the data: note-on and note-off of two keys with velocity
\* 0 and 100, controller changes (5 is the attack, 60 has no handler), and
\* 248, a status the loop stops at
DEvents ==
    {<<status, b1, b2>> : status \in {144, 128, 176}, b1 \in {5, 60}, b2 \in {0, 100}}
    \cup {<<248, 0, 0>>}

RECURSIVE Flatten(_)
Flatten(ss) == IF ss = <<>> THEN <<>> ELSE Head(ss) \o Flatten(Tail(ss))

\* the data of one call: up to MaxEvents whole events, or a note-on cut
\* short after an event
DData ==
    {Flatten(es) : es \in SeqsUpTo(DEvents, MaxEvents)}
    \cup {e \o <<144, 60>> : e \in DEvents}

\* the Note messages of a sequence of messages
NotesOf(msgs) == SelectSeq(msgs, LAMBDA m : m.type = "Note")

DInit ==
    /\ d_midi = Midi_new(init_monosynth(Core_new).control_map)
    /\ d_sent = <<>>
    /\ d_panic = FALSE

\* Engine::dispatch_midi(data, ts) on an engine with a Midi
DDispatchMidi ==
    /\ ~d_panic
    /\ \E data \in DData :
        LET r == dispatch_midi([midi |-> d_midi, sent |-> <<>>, panic |-> FALSE],
                               data, 0, 1)
        IN /\ Len(d_sent \o r.sent) <= MaxMidiSent
           /\ d_midi' = r.midi
           /\ d_sent' = d_sent \o r.sent
           /\ d_panic' = r.panic
    /\ UNCHANGED nond

DNext == DDispatchMidi

\* C31: in the Note messages sent, each note-off comes directly after a
\* note-on of the same key; the current note is the key of the last Note
\* sent if that was a note-on, and None otherwise.
C31_Monophonic ==
    LET notes == NotesOf(d_sent) IN
    /\ \A i \in 1..Len(notes) :
          ~notes[i].on => /\ i > 1
                          /\ notes[i - 1].on
                          /\ notes[i - 1].midi_num = notes[i].midi_num
    /\ d_midi.cur_note = IF notes /= <<>> /\ notes[Len(notes)].on
                         THEN <<notes[Len(notes)].midi_num>> ELSE <<>>

\* C31 witness: note-ons of both keys were sent one after the other, then
\* the note-off of the second (a 0x90 with velocity 0), which cleared the
\* current note
C31_Witness ==
    LET notes == NotesOf(d_sent) IN
    /\ Len(notes) >= 3
    /\ notes[1].on /\ notes[2].on /\ notes[1].midi_num /= notes[2].midi_num
    /\ ~notes[3].on /\ notes[3].velocity = 0 /\ notes[3].midi_num = notes[2].midi_num
    /\ d_midi.cur_note = <<>>

\* ------------------------------------------------------------------------
\* SpecE: the Engine builds and plays while the Worker works
\* ------------------------------------------------------------------------
\* The control thread makes one Engine call at a time; the messages of a
\* call go out one by one (ESend), and a work call of the audio thread may
\* come between any two of them. The queue delivers in send order (C2), so
\* e_tx is a sequence. The worker's graph has the slots 0..MaxEngineId, a
\* Sum without inputs installed at the root, slot 0.

EIds == 0..MaxEngineId

\* the data of the dispatch_midi calls of SpecE: a note-on, its note-off
\* and a change of controller 5
EData == {<<144, 60, 100>>, <<128, 60, 0>>, <<176, 5, 100>>}

\* Worker::handle_message(msg), handle_item on the Item made of it: S is
\* the graph's slots and whether get_module_mut has panicked
handle_message(S, msg) ==
    IF S.panic THEN S
    ELSE CASE msg.type = "Node" -> [S EXCEPT !.nodes[msg.ix] = msg]
           [] msg.type = "SetParam" ->
                 [S EXCEPT !.panic = S.nodes[msg.ix] = None]
           [] msg.type = "Note" ->
                 [S EXCEPT !.panic = \E i \in 1..Len(msg.ixs) : S.nodes[msg.ixs[i]] = None]
           [] OTHER -> S

\* the for loop of Worker::work over the items received
RECURSIVE work_items(_, _)
work_items(S, items) ==
    IF items = <<>> THEN S ELSE work_items(handle_message(S, Head(items)), Tail(items))

EInit ==
    /\ e_id_alloc = Core_new.id_alloc
    /\ e_midi = <<>>
    /\ e_pending = <<>>
    /\ e_tx = <<>>
    /\ e_nodes = [ix \in EIds |-> IF ix = 0 THEN NodeMsg(0, <<>>, <<>>) ELSE None]
    /\ e_panic = FALSE
    /\ e_ids = {}
    /\ e_ncalls = 0
    /\ e_met = {}
    /\ e_mid = FALSE

\* Engine::init_monosynth()
EInitMonosynth ==
    /\ e_pending = <<>> /\ e_ncalls < MaxEngineCalls
    /\ e_id_alloc.highwater + 15 <= MaxEngineId
    /\ LET r == init_monosynth([id_alloc |-> e_id_alloc, sent |-> <<>>]) IN
        /\ e_id_alloc' = r.core.id_alloc
        /\ e_pending' = r.core.sent
        /\ e_midi' = <<Midi_new(r.control_map)>>
    /\ e_ncalls' = e_ncalls + 1
    /\ UNCHANGED <<e_tx, e_nodes, e_panic, e_ids, e_met, e_mid>>
    /\ UNCHANGED none

\* Engine::instantiate_module(node_id, ty); the caller keeps the id
EInstantiateModule ==
    /\ e_pending = <<>> /\ e_ncalls < MaxEngineCalls
    /\ e_id_alloc.highwater + 1 <= MaxEngineId
    /\ \E ty \in {"Sin", "Saw"} :
        LET r == instantiate_module([id_alloc |-> e_id_alloc, sent |-> <<>>], ty) IN
        /\ e_id_alloc' = r.core.id_alloc
        /\ e_pending' = r.core.sent
        /\ e_ids' = e_ids \cup {r.id}
    /\ e_ncalls' = e_ncalls + 1
    /\ UNCHANGED <<e_midi, e_tx, e_nodes, e_panic, e_met, e_mid>>
    /\ UNCHANGED none

\* Engine::set_outputs(outputs), outputs being ids that instantiate_module
\* returned
ESetOutputs ==
    /\ e_pending = <<>> /\ e_ncalls < MaxEngineCalls
    /\ \E outputs \in SeqsUpTo(e_ids, 2) :
        e_pending' = set_outputs([id_alloc |-> e_id_alloc, sent |-> <<>>],
                                 e_midi, outputs).sent
    /\ e_ncalls' = e_ncalls + 1
    /\ UNCHANGED <<e_id_alloc, e_midi, e_tx, e_nodes, e_panic, e_ids, e_met, e_mid>>
    /\ UNCHANGED none

\* Engine::dispatch_midi(data, ts): nothing without a Midi
EDispatchMidi ==
    /\ e_pending = <<>> /\ e_ncalls < MaxEngineCalls
    /\ \E data \in EData :
        IF e_midi = <<>>
        THEN UNCHANGED <<e_midi, e_pending>>
        ELSE LET r == dispatch_midi([midi |-> e_midi[1], sent |-> <<>>, panic |-> FALSE],
                                    data, e_ncalls, 1)
             IN /\ e_midi' = <<r.midi>>
                /\ e_pending' = r.sent
    /\ e_ncalls' = e_ncalls + 1
    /\ UNCHANGED <<e_id_alloc, e_tx, e_nodes, e_panic, e_ids, e_met, e_mid>>
    /\ UNCHANGED none

\* Core::send(msg): self.tx.send(msg), for the next message of the call
ESend ==
    /\ e_pending /= <<>>
    /\ e_tx' = Append(e_tx, Head(e_pending))
    /\ e_pending' = Tail(e_pending)
    /\ UNCHANGED <<e_id_alloc, e_midi, e_nodes, e_panic, e_ids, e_ncalls, e_met, e_mid>>
    /\ UNCHANGED none

\* Worker::work(timestamp): every item received is handled, then the graph
\* is run from the root. visited is all NotVisited between calls, and
\* topo_sort writes link before it reads it.
EWork ==
    /\ ~e_panic
    /\ \E S \in {work_items([nodes |-> e_nodes, panic |-> FALSE], e_tx)} :
       \E g \in {run_graph(S.nodes, [ix \in EIds |-> NotVisited],
                            [ix \in EIds |-> SENTINEL], 0)} :
          /\ e_nodes' = S.nodes
          /\ e_panic' = (S.panic \/ g.panic \/ g.hang)
    /\ e_tx' = <<>>
    /\ e_met' = e_met \cup {e_tx[i].type : i \in 1..Len(e_tx)}
    /\ e_mid' = (e_mid \/ (e_pending /= <<>> /\ e_tx /= <<>>))
    /\ UNCHANGED <<e_id_alloc, e_midi, e_pending, e_ids, e_ncalls>>
    /\ UNCHANGED none

ENext ==
    \/ EInitMonosynth
    \/ EInstantiateModule
    \/ ESetOutputs
    \/ EDispatchMidi
    \/ ESend
    \/ EWork

\* C32: no work call has panicked on a missing node, be it the target of a
\* SetParam or Note or a source the graph run came to, and every source
\* that the wiring of an installed node names is installed.
C32_NoMissingNode ==
    /\ ~e_panic
    /\ \A ix \in EIds : e_nodes[ix] /= None =>
          \A i \in 1..Len(Children(e_nodes[ix])) : e_nodes[Children(e_nodes[ix])[i]] /= None

\* C32 witness: work calls have handled nodes while their Engine call was
\* still sending, a SetParam and a Note, and the last one ran the graph
\* with the root wired to the monitor and nothing left to receive
C32_Witness ==
    /\ ~e_panic /\ e_mid
    /\ {"Node", "SetParam", "Note"} \subseteq e_met
    /\ Len(e_nodes[0].in_buf_wiring) = 1
    /\ e_pending = <<>> /\ e_tx = <<>>

\* ------------------------------------------------------------------------
\* The specifications
\* ------------------------------------------------------------------------

Init == QInit /\ GInit /\ WInit /\ MInit /\ SInit /\ NInit /\ IInit /\ AInit /\ RInit /\ XInit /\ KInit /\ DInit /\ EInit

SpecQ == Init /\ [][QNext]_vars

SpecG == Init /\ [][GNext]_vars

SpecW == Init /\ [][WNext]_vars

SpecM == Init /\ [][MNext]_vars

SpecS == Init /\ [][SNext]_vars

SpecN == Init /\ [][NNext]_vars

SpecI == Init /\ [][INext]_vars

SpecA == Init /\ [][ANext]_vars

SpecR == Init /\ [][RNext]_vars

SpecX == Init /\ [][XNext]_vars

SpecK == Init /\ [][KNext]_vars

SpecD == Init /\ [][DNext]_vars

SpecE == Init /\ [][ENext]_vars

\* the audio callback keeps calling process
SpecAFair == SpecA /\ WF_vars(AProcess)

=============================================================================
